---- MODULE Spec2Model ----
(***************************************************************************)
(* NSP Bolt Ride stream processor: the enhanced lambda_handler, its        *)
(* validation, the DynamoDB trip store (update_item upserts) and the       *)
(* two-step completion protocol (merge, then mark_trip_complete), run by   *)
(* concurrent Lambda invocations against one table.                        *)
(***************************************************************************)
EXTENDS Integers, Sequences, FiniteSets, TLC

(***************************************************************************)
(* Bounds of the model.                                                    *)
(***************************************************************************)
\* records per batch (len(event['Records']))
MaxBatch == 2
\* records of the batch of a single invocation
MaxBatchSingle == 3
\* records delivered in one run, over all its batches
MaxRecords == 3
\* storage failures (update_item calls that raise) in one run
MaxFaults == 1
\* clock ticks the model lets pass; one tick is TickMinutes
MaxNow == 1

Workers == {"w1", "w2"}
\* invocations of the basic lambda_handler (lambda/stream_processor/handler.py)
BasicWorkers == {"b1"}
Handlers == Workers \cup BasicWorkers
TripIds == {"T1", "T2"}

(***************************************************************************)
(* Time. Instants are minutes since 2024-05-25T00:00:00; the clock starts  *)
(* at 2024-05-27T00:00:00 and a tick is one TTL period (24 hours).         *)
(***************************************************************************)
TtlMinutes == 24 * 60
TickMinutes == TtlMinutes
NowStart == 2 * 24 * 60
NowMinutes(n) == NowStart + n * TickMinutes

(***************************************************************************)
(* JSON values. Numbers are fixed-point, in thousandths, so that 0.005 and *)
(* 10.5 are values; a Python dict is a function on the keys it holds.      *)
(***************************************************************************)
Milli == 10 * 100
Num(n) == [ty |-> "num", v |-> n]
Str(s) == [ty |-> "str", v |-> s]
Null == [ty |-> "null", v |-> 0]

\* int(x): truncation toward zero
PyInt(x) == IF x >= 0 THEN (x \div Milli) * Milli ELSE 0 - (((0 - x) \div Milli) * Milli)
\* Decimal(str(x)): the decimal of the shortest repr, the same number
PyDecimal(x) == x

\* dict.get(key): None when the key is absent
Get(d, k) == IF k \in DOMAIN d THEN d[k] ELSE Null
\* Python truthiness of a JSON value
Truthy(x) == CASE x.ty = "null" -> FALSE
               [] x.ty = "str" -> x.v # ""
               [] x.ty = "num" -> x.v # 0
               [] OTHER -> TRUE

SeqMap(Op(_), s) == [i \in DOMAIN s |-> Op(s[i])]

(***************************************************************************)
(* Event payloads (decoded JSON objects).                                  *)
(***************************************************************************)
StartBodyA == [pickup_location_id |-> Num(10 * Milli),
               dropoff_location_id |-> Num(20 * Milli),
               vendor_id |-> Num(2 * Milli),
               pickup_datetime |-> Str("2024-05-25T08:00:00"),
               estimated_dropoff_datetime |-> Str("2024-05-25T08:30:00"),
               estimated_fare_amount |-> Num(15 * Milli)]
\* a redelivery with corrected values; the location id is a float, 10.5
StartBodyB == [pickup_location_id |-> Num(10 * Milli + 500),
               dropoff_location_id |-> Num(20 * Milli),
               vendor_id |-> Num(2 * Milli),
               pickup_datetime |-> Str("2024-05-25T09:15:00"),
               estimated_dropoff_datetime |-> Str("2024-05-25T09:45:00"),
               estimated_fare_amount |-> Num(15 * Milli)]
EndBodyA == [dropoff_datetime |-> Str("2024-05-25T08:31:00"),
             rate_code |-> Num(1 * Milli),
             passenger_count |-> Num(1 * Milli),
             trip_distance |-> Num(3200),
             fare_amount |-> Num(14500),
             tip_amount |-> Num(2 * Milli),
             payment_type |-> Num(1 * Milli),
             trip_type |-> Num(1 * Milli)]
\* a redelivery with a different dropoff time, on the next day
EndBodyB == [dropoff_datetime |-> Str("2024-05-26T00:10:00"),
             rate_code |-> Num(1 * Milli),
             passenger_count |-> Num(1 * Milli),
             trip_distance |-> Num(3200),
             fare_amount |-> Num(14500),
             tip_amount |-> Num(2 * Milli),
             payment_type |-> Num(1 * Milli),
             trip_type |-> Num(1 * Milli)]
\* a dropoff far in the future (FUTURE_DROPOFF)
EndBodyFuture == [EndBodyA EXCEPT !.dropoff_datetime = Str("2024-06-30T09:00:00")]

\* UTC timestamps written with a trailing 'Z'
StartBodyZ == [StartBodyA EXCEPT !.pickup_datetime = Str("2024-05-25T08:00:00Z"),
                                 !.estimated_dropoff_datetime = Str("2024-05-25T08:30:00Z")]
EndBodyZ == [EndBodyA EXCEPT !.dropoff_datetime = Str("2024-05-25T08:31:00Z")]

StartBodies == {StartBodyA, StartBodyB}
EndBodies == {EndBodyA, EndBodyB}

StartPayload(t, body) == [event_type |-> Str("trip_start"), trip_id |-> Str(t)] @@ body
EndPayload(t, body) == [event_type |-> Str("trip_end"), trip_id |-> Str(t)] @@ body
\* a Start lacking vendor_id
StartPayloadNoVendor(t) ==
    [f \in (DOMAIN StartPayload(t, StartBodyA)) \ {"vendor_id"} |-> StartPayload(t, StartBodyA)[f]]

\* T1 is delivered with either body of each half, T2 with the first ones
ValidPayloads == {StartPayload("T1", b) : b \in StartBodies}
                 \cup {EndPayload("T1", b) : b \in EndBodies}
                 \cup {StartPayload("T2", StartBodyA), EndPayload("T2", EndBodyA)}
InvalidPayloads == {EndPayload("T1", EndBodyFuture), StartPayloadNoVendor("T1"),
                    [event_type |-> Str("trip_cancel"), trip_id |-> Str("T1")]}
\* a Start carrying only event_type and trip_id
MinimalStart(t) == [event_type |-> Str("trip_start"), trip_id |-> Str(t)]
\* schema-valid events with 'Z' timestamps
ZuluPayloads == {StartPayload("T1", StartBodyZ), EndPayload("T1", EndBodyZ)}

(***************************************************************************)
(* Kinesis records: record['kinesis']['data'] is what the producer put on  *)
(* the stream; enc says how far base64/UTF-8/JSON decoding gets.           *)
(***************************************************************************)
KinesisRecord(enc, payload) == [kinesis |-> [data |-> [enc |-> enc, payload |-> payload]]]
\* a JSON document that is an array, not an object
JsonArray == [ty |-> "array", v |-> 0]
IsDict(x) == "ty" \notin DOMAIN x
\* a record whose 'kinesis' entry is a string, not a dict
BadRecord == [kinesis |-> Str("kinesis")]
\* the records of the concurrent runs: deliveries of either half of one trip
Records == {KinesisRecord("json", p) :
                p \in {StartPayload("T1", b) : b \in StartBodies}
                      \cup {EndPayload("T1", b) : b \in EndBodies}}
\* the records of the accounting runs: every disposition, on one trip
BatchRecords == {KinesisRecord("json", p) :
                     p \in {StartPayload("T1", StartBodyA), EndPayload("T1", EndBodyA)}
                           \cup InvalidPayloads \cup ZuluPayloads \cup {JsonArray}}
                \cup {KinesisRecord("bad_base64", JsonArray), KinesisRecord("bad_json", JsonArray)}
                \cup {BadRecord}
\* the records of the basic handler's runs
BasicRecords == {KinesisRecord("json", p) :
                     p \in {StartPayload("T1", StartBodyA), EndPayload("T1", EndBodyA),
                            MinimalStart("T1"), StartPayloadNoVendor("T1"),
                            [event_type |-> Str("trip_cancel"), trip_id |-> Str("T1")]}}
                \cup {KinesisRecord("bad_json", JsonArray), BadRecord}

\* the records of the validation runs: events at the edges of the validation
\* rules, on one trip
EdgeStart(pickup_datetime) ==
    KinesisRecord("json", StartPayload("T1", [StartBodyA EXCEPT !.pickup_datetime = Str(pickup_datetime)]))
EdgeEnd(dropoff_datetime) ==
    KinesisRecord("json", EndPayload("T1", [EndBodyA EXCEPT !.dropoff_datetime = Str(dropoff_datetime)]))
EdgeRecords ==
    {EdgeStart(t) : t \in {"2024-05-25T08:00:00", "2024-05-27T01:01:00", "2024-05-19T23:59:00",
                           "2024-05-27T02:00:00Z"}}
    \cup {EdgeEnd(t) : t \in {"2024-05-27T00:31:00", "not-a-time", ""}}
    \cup {KinesisRecord("json", [event_type |-> Str(type), trip_id |-> Str("T1")]) :
              type \in {"trip_cancel", ""}}
    \cup {KinesisRecord("bad_json", JsonArray)}

(***************************************************************************)
(* datetime.fromisoformat(s.replace('Z', '+00:00')) on the strings of the  *)
(* model: whether it parses, whether the result is timezone-aware, and    *)
(* the instant.                                                           *)
(***************************************************************************)
FromIsoFormat(s) ==
    CASE s = "2024-05-25T08:00:00" -> [ok |-> TRUE, aware |-> FALSE, t |-> 8 * 60]
      [] s = "2024-05-25T09:15:00" -> [ok |-> TRUE, aware |-> FALSE, t |-> 9 * 60 + 15]
      [] s = "2024-05-25T08:31:00" -> [ok |-> TRUE, aware |-> FALSE, t |-> 8 * 60 + 31]
      [] s = "2024-05-26T00:10:00" -> [ok |-> TRUE, aware |-> FALSE, t |-> 24 * 60 + 10]
      [] s = "2024-06-30T09:00:00" -> [ok |-> TRUE, aware |-> FALSE, t |-> 36 * 24 * 60 + 9 * 60]
      [] s = "2024-05-25T08:00:00Z" -> [ok |-> TRUE, aware |-> TRUE, t |-> 8 * 60]
      [] s = "2024-05-25T08:31:00Z" -> [ok |-> TRUE, aware |-> TRUE, t |-> 8 * 60 + 31]
      [] s = "2024-05-27T00:30:00" -> [ok |-> TRUE, aware |-> FALSE, t |-> NowStart + 30]
      [] s = "2024-05-27T00:31:00" -> [ok |-> TRUE, aware |-> FALSE, t |-> NowStart + 31]
      [] s = "2024-05-27T01:00:00" -> [ok |-> TRUE, aware |-> FALSE, t |-> NowStart + 60]
      [] s = "2024-05-27T01:01:00" -> [ok |-> TRUE, aware |-> FALSE, t |-> NowStart + 61]
      [] s = "2024-05-20T00:00:00" -> [ok |-> TRUE, aware |-> FALSE, t |-> NowStart - 7 * 24 * 60]
      [] s = "2024-05-19T23:59:00" -> [ok |-> TRUE, aware |-> FALSE, t |-> NowStart - 7 * 24 * 60 - 1]
      [] s = "2024-05-27T02:00:00Z" -> [ok |-> TRUE, aware |-> TRUE, t |-> NowStart + 2 * 60]
      [] OTHER -> [ok |-> FALSE, aware |-> FALSE, t |-> 0]

(***************************************************************************)
(* Validation schemas.                                                     *)
(***************************************************************************)
TRIP_START_SCHEMA ==
    [required_fields |-> <<"trip_id", "pickup_location_id", "dropoff_location_id", "vendor_id",
                           "pickup_datetime", "estimated_dropoff_datetime",
                           "estimated_fare_amount">>,
     field_types |-> <<[field |-> "trip_id", types |-> {"str"}],
                       [field |-> "pickup_location_id", types |-> {"num"}],
                       [field |-> "dropoff_location_id", types |-> {"num"}],
                       [field |-> "vendor_id", types |-> {"num"}],
                       [field |-> "pickup_datetime", types |-> {"str"}],
                       [field |-> "estimated_dropoff_datetime", types |-> {"str"}],
                       [field |-> "estimated_fare_amount", types |-> {"num"}]>>,
     field_ranges |-> <<[field |-> "pickup_location_id", min |-> 1 * Milli, max |-> 500 * Milli],
                        [field |-> "dropoff_location_id", min |-> 1 * Milli, max |-> 500 * Milli],
                        [field |-> "vendor_id", min |-> 1 * Milli, max |-> 10 * Milli],
                        [field |-> "estimated_fare_amount", min |-> 10, max |-> 1000 * Milli]>>]

TRIP_END_SCHEMA ==
    [required_fields |-> <<"trip_id", "dropoff_datetime", "rate_code", "passenger_count",
                           "trip_distance", "fare_amount", "tip_amount", "payment_type",
                           "trip_type">>,
     field_types |-> <<[field |-> "trip_id", types |-> {"str"}],
                       [field |-> "dropoff_datetime", types |-> {"str"}],
                       [field |-> "rate_code", types |-> {"num"}],
                       [field |-> "passenger_count", types |-> {"num"}],
                       [field |-> "trip_distance", types |-> {"num"}],
                       [field |-> "fare_amount", types |-> {"num"}],
                       [field |-> "tip_amount", types |-> {"num"}],
                       [field |-> "payment_type", types |-> {"num"}],
                       [field |-> "trip_type", types |-> {"num"}]>>,
     field_ranges |-> <<[field |-> "rate_code", min |-> 1 * Milli, max |-> 10 * Milli],
                        [field |-> "passenger_count", min |-> 0, max |-> 8 * Milli],
                        [field |-> "trip_distance", min |-> 0, max |-> 100 * Milli],
                        [field |-> "fare_amount", min |-> 10, max |-> 1000 * Milli],
                        [field |-> "tip_amount", min |-> 0, max |-> 200 * Milli],
                        [field |-> "payment_type", min |-> 1 * Milli, max |-> 5 * Milli],
                        [field |-> "trip_type", min |-> 1 * Milli, max |-> 3 * Milli]>>]

Err(type, field) == [type |-> type, field |-> field]

\* a JSON integer beyond the range of a float (more than 308 digits)
HugeInt == [ty |-> "num", v |-> 2000000 * Milli, huge |-> TRUE]
\* float(value) raises OverflowError
FloatOverflows(value) == value.ty = "num" /\ "huge" \in DOMAIN value
\* float(s) of the strings of the model: the number, or ValueError
ParseFloat(s) ==
    CASE s = "0.005" -> [ok |-> TRUE, v |-> 5]
      [] s = "15.0" -> [ok |-> TRUE, v |-> 15 * Milli]
      [] OTHER -> [ok |-> FALSE, v |-> 0]
\* float(value): ok is false when it raises ValueError or TypeError
FloatOf(value) ==
    CASE value.ty = "num" -> [ok |-> TRUE, v |-> value.v]
      [] value.ty = "str" -> ParseFloat(value.v)
      [] OTHER -> [ok |-> FALSE, v |-> 0]

(***************************************************************************)
(* validate_business_rules(payload, event_type) at the instant now (in     *)
(* minutes). A timezone-aware parse makes the comparison with the naive    *)
(* datetime.now() raise TypeError, and a non-string time has no .replace:  *)
(* both end in the outer except, which adds BUSINESS_RULE_ERROR.           *)
(***************************************************************************)
BusinessRuleError == Err("BUSINESS_RULE_ERROR", "system")

StartBusinessRules(payload, now) ==
    LET pickup_dt == Get(payload, "pickup_datetime")
        parsed == FromIsoFormat(pickup_dt.v)
    IN  IF ~Truthy(pickup_dt) THEN [errors |-> <<>>, warnings |-> <<>>]
        ELSE IF pickup_dt.ty # "str" THEN [errors |-> <<BusinessRuleError>>, warnings |-> <<>>]
        ELSE IF ~parsed.ok
             THEN [errors |-> <<Err("INVALID_DATETIME", "pickup_datetime")>>, warnings |-> <<>>]
        ELSE IF parsed.aware THEN [errors |-> <<BusinessRuleError>>, warnings |-> <<>>]
        ELSE [errors |-> <<>>,
              warnings |->
                  (IF parsed.t > now + 60
                   THEN <<Err("FUTURE_PICKUP", "pickup_datetime")>> ELSE <<>>)
                  \o (IF parsed.t < now - 7 * 24 * 60
                      THEN <<Err("OLD_PICKUP", "pickup_datetime")>> ELSE <<>>)]

\* the dropoff check without the future test
EndDropoffErrorsAnyTime(payload, now) ==
    LET dropoff_dt == Get(payload, "dropoff_datetime")
        parsed == FromIsoFormat(dropoff_dt.v)
    IN  IF ~Truthy(dropoff_dt) THEN [raised |-> FALSE, errors |-> <<>>]
        ELSE IF dropoff_dt.ty # "str" THEN [raised |-> TRUE, errors |-> <<>>]
        ELSE IF ~parsed.ok
             THEN [raised |-> FALSE, errors |-> <<Err("INVALID_DATETIME", "dropoff_datetime")>>]
        ELSE IF parsed.aware THEN [raised |-> TRUE, errors |-> <<>>]
        ELSE [raised |-> FALSE, errors |-> <<>>]

EndDropoffErrors(payload, now) ==
    LET dropoff_dt == Get(payload, "dropoff_datetime")
        parsed == FromIsoFormat(dropoff_dt.v)
    IN  IF ~Truthy(dropoff_dt) THEN [raised |-> FALSE, errors |-> <<>>]
        ELSE IF dropoff_dt.ty # "str" THEN [raised |-> TRUE, errors |-> <<>>]
        ELSE IF ~parsed.ok
             THEN [raised |-> FALSE, errors |-> <<Err("INVALID_DATETIME", "dropoff_datetime")>>]
        ELSE IF parsed.aware THEN [raised |-> TRUE, errors |-> <<>>]
        ELSE [raised |-> FALSE,
              errors |-> IF parsed.t > now + 30
                         THEN <<Err("FUTURE_DROPOFF", "dropoff_datetime")>> ELSE <<>>]

EndFareRules(payload) ==
    LET fare_amount == Get(payload, "fare_amount")
        trip_distance == Get(payload, "trip_distance")
        fare == FloatOf(fare_amount)
        distance == FloatOf(trip_distance)
    IN  IF ~(Truthy(fare_amount) /\ Truthy(trip_distance))
        THEN [raised |-> FALSE, warnings |-> <<>>]
        ELSE IF fare_amount.ty \notin {"num", "str"} \/ FloatOverflows(fare_amount)
             THEN [raised |-> TRUE, warnings |-> <<>>]
        ELSE IF ~fare.ok THEN [raised |-> FALSE, warnings |-> <<>>]
        ELSE IF trip_distance.ty \notin {"num", "str"} \/ FloatOverflows(trip_distance)
             THEN [raised |-> TRUE, warnings |-> <<>>]
        ELSE IF ~distance.ok THEN [raised |-> FALSE, warnings |-> <<>>]
        ELSE [raised |-> FALSE,
              warnings |-> IF distance.v > 0 /\ fare.v > 50 * distance.v
                           THEN <<Err("HIGH_FARE_RATE", "fare_amount")>> ELSE <<>>]

EndBusinessRules(payload, now) ==
    LET d == EndDropoffErrors(payload, now)
        f == EndFareRules(payload)
    IN  IF d.raised THEN [errors |-> <<BusinessRuleError>>, warnings |-> <<>>]
        ELSE IF f.raised THEN [errors |-> d.errors \o <<BusinessRuleError>>, warnings |-> <<>>]
        ELSE [errors |-> d.errors, warnings |-> f.warnings]

validate_business_rules(payload, event_type, now) ==
    IF event_type = "trip_start" THEN StartBusinessRules(payload, now)
    ELSE IF event_type = "trip_end" THEN EndBusinessRules(payload, now)
    ELSE [errors |-> <<>>, warnings |-> <<>>]

(***************************************************************************)
(* validate_event_data(payload, correlation_id) at the instant now. Every  *)
(* check of a known kind runs; is_valid is cleared with each error. The    *)
(* range loop calls float(payload[field]) and catches ValueError and       *)
(* TypeError only: on an int too large for a float it raises               *)
(* OverflowError, which ends the checks in the outer except with a         *)
(* VALIDATION_SYSTEM_ERROR.                                                *)
(***************************************************************************)
\* the place in field_ranges of the first present field whose float(..) overflows, or 0
FirstOverflow(payload, schema) ==
    LET S == {i \in DOMAIN schema.field_ranges :
                  /\ schema.field_ranges[i].field \in DOMAIN payload
                  /\ FloatOverflows(payload[schema.field_ranges[i].field])}
    IN  IF S = {} THEN 0 ELSE CHOOSE i \in S : \A j \in S : i <= j
\* the entries of field_ranges the range loop gets through
RangesChecked(payload, schema) ==
    IF FirstOverflow(payload, schema) = 0 THEN schema.field_ranges
    ELSE SubSeq(schema.field_ranges, 1, FirstOverflow(payload, schema) - 1)

SchemaErrors(payload, schema) ==
    LET Missing(f) == f \notin DOMAIN payload
        MissingErr(f) == Err("MISSING_FIELD", f)
        BadType(e) == e.field \in DOMAIN payload /\ payload[e.field].ty \notin e.types
        TypeErr(e) == Err("TYPE_ERROR", e.field)
        OutOfRange(e) == /\ e.field \in DOMAIN payload
                         /\ FloatOf(payload[e.field]).ok
                         /\ ~(e.min <= FloatOf(payload[e.field]).v
                              /\ FloatOf(payload[e.field]).v <= e.max)
        RangeErr(e) == Err("RANGE_ERROR", e.field)
    IN  SeqMap(MissingErr, SelectSeq(schema.required_fields, Missing))
        \o SeqMap(TypeErr, SelectSeq(schema.field_types, BadType))
        \o SeqMap(RangeErr, SelectSeq(RangesChecked(payload, schema), OutOfRange))

SchemaWarnings(payload, schema) ==
    LET NotNumeric(e) == e.field \in DOMAIN payload /\ ~FloatOf(payload[e.field]).ok
        RangeWarn(e) == Err("RANGE_CHECK_FAILED", e.field)
    IN  SeqMap(RangeWarn, SelectSeq(RangesChecked(payload, schema), NotNumeric))

Result(errors, warnings) == [is_valid |-> errors = <<>>, errors |-> errors, warnings |-> warnings]

\* a validation that lets an unknown event_type through
validate_event_data_any_type(payload, now) ==
    LET event_type == Get(payload, "event_type")
        schema == IF event_type = Str("trip_start") THEN TRIP_START_SCHEMA ELSE TRIP_END_SCHEMA
        business == validate_business_rules(payload, event_type.v, now)
    IN  IF ~IsDict(payload) THEN Result(<<Err("STRUCTURE_ERROR", "root")>>, <<>>)
        ELSE IF ~Truthy(event_type) THEN Result(<<Err("MISSING_FIELD", "event_type")>>, <<>>)
        ELSE IF event_type \notin {Str("trip_start"), Str("trip_end")}
             THEN Result(<<>>, <<>>)
        ELSE Result(SchemaErrors(payload, schema) \o business.errors,
                    SchemaWarnings(payload, schema) \o business.warnings)

\* a validation that goes on to the checks after an unknown event_type
validate_event_data_type_unchecked(payload, now) ==
    LET event_type == Get(payload, "event_type")
        schema == IF event_type = Str("trip_start") THEN TRIP_START_SCHEMA ELSE TRIP_END_SCHEMA
        business == validate_business_rules(payload, event_type.v, now)
        unknown == IF event_type \notin {Str("trip_start"), Str("trip_end")}
                   THEN <<Err("INVALID_EVENT_TYPE", "event_type")>> ELSE <<>>
    IN  IF ~IsDict(payload) THEN Result(<<Err("STRUCTURE_ERROR", "root")>>, <<>>)
        ELSE IF ~Truthy(event_type) THEN Result(<<Err("MISSING_FIELD", "event_type")>>, <<>>)
        ELSE IF FirstOverflow(payload, schema) > 0
             THEN Result(unknown \o SchemaErrors(payload, schema)
                             \o <<Err("VALIDATION_SYSTEM_ERROR", "system")>>,
                         SchemaWarnings(payload, schema))
        ELSE Result(unknown \o SchemaErrors(payload, schema) \o business.errors,
                    SchemaWarnings(payload, schema) \o business.warnings)

validate_event_data(payload, now) ==
    LET event_type == Get(payload, "event_type")
        schema == IF event_type = Str("trip_start") THEN TRIP_START_SCHEMA ELSE TRIP_END_SCHEMA
        business == validate_business_rules(payload, event_type.v, now)
    IN  IF ~IsDict(payload) THEN Result(<<Err("STRUCTURE_ERROR", "root")>>, <<>>)
        ELSE IF ~Truthy(event_type) THEN Result(<<Err("MISSING_FIELD", "event_type")>>, <<>>)
        ELSE IF event_type \notin {Str("trip_start"), Str("trip_end")}
             THEN Result(<<Err("INVALID_EVENT_TYPE", "event_type")>>, <<>>)
        ELSE IF FirstOverflow(payload, schema) > 0
             THEN Result(SchemaErrors(payload, schema)
                             \o <<Err("VALIDATION_SYSTEM_ERROR", "system")>>,
                         SchemaWarnings(payload, schema))
        ELSE Result(SchemaErrors(payload, schema) \o business.errors,
                    SchemaWarnings(payload, schema) \o business.warnings)

(***************************************************************************)
(* Failures and their classification.                                      *)
(***************************************************************************)
Exc(type, msg) == [type |-> type, msg |-> msg]
ThroughputExceeded ==
    Exc("ClientError", "An error occurred (ProvisionedThroughputExceededException) when calling the UpdateItem operation")
InternalServerError ==
    Exc("ClientError", "An error occurred (InternalServerError) when calling the UpdateItem operation")
MalformedDocument ==
    Exc("ClientError", "An error occurred (SerializationException) when calling the UpdateItem operation: Malformed document")
\* what a DynamoDB update_item call can raise
StorageErrors == {ThroughputExceeded, InternalServerError, MalformedDocument}
\* base64.b64decode / bytes.decode on bad data: binascii.Error, a ValueError
Base64Error == Exc("binascii.Error", "Incorrect padding")
JsonDecodeError == Exc("JSONDecodeError", "Expecting value: line 1 column 1 (char 0)")
\* payload.get on a decoded JSON array
ListHasNoGet == Exc("AttributeError", "'list' object has no attribute 'get'")
\* event_data[field] on a payload without the field
KeyError == Exc("KeyError", "'field'")
\* record['kinesis']['data'] on a record whose 'kinesis' is a string
StrIndexError == Exc("TypeError", "string indices must be integers")

\* further failures categorize_error can be handed: a throttled call, a failed
\* conditional check, the endpoint out of reach, a read timeout, a response cut off
ThrottlingException ==
    Exc("ClientError", "An error occurred (ThrottlingException) when calling the UpdateItem operation: Rate exceeded")
RequestThrottled == Exc("ClientError", "THROTTLING: request rate too high")
ConditionalCheckFailed ==
    Exc("ClientError", "An error occurred (ConditionalCheckFailedException) when calling the UpdateItem operation: The conditional request failed")
EndpointUnreachable ==
    Exc("EndpointConnectionError", "Could not connect to the endpoint URL: https://dynamodb.us-east-1.amazonaws.com/")
ReadTimeout == Exc("ReadTimeoutError", "Read timeout on endpoint URL: https://dynamodb.us-east-1.amazonaws.com/")
CorruptResponse == Exc("ResponseParserError", "Connection closed: corrupt response body")
MalformedOverNetwork == Exc("ClientError", "Malformed document received over the network")
\* the failures of the model
Failures == {ThroughputExceeded, InternalServerError, MalformedDocument, Base64Error,
             JsonDecodeError, ListHasNoGet, KeyError, StrIndexError, ThrottlingException,
             RequestThrottled, ConditionalCheckFailed, EndpointUnreachable, ReadTimeout,
             CorruptResponse, MalformedOverNetwork}
\* exception classes: the first row are ValueError, TypeError and their subclasses
ErrorTypes == {"ValidationError", "ValueError", "TypeError", "binascii.Error",
               "UnicodeDecodeError", "JSONDecodeError",
               "ClientError", "EndpointConnectionError", "ReadTimeoutError",
               "ResponseParserError", "KeyError", "AttributeError", "Exception"}
Messages == {e.msg : e \in Failures}
\* an exception of any class with any message
AnyFailures == {Exc(type, msg) : type \in ErrorTypes, msg \in Messages}

\* str.lower(): every ASCII capital is replaced by its small letter
Capitals == "ABCDEFGHIJKLMNOPQRSTUVWXYZ"
Smalls == "abcdefghijklmnopqrstuvwxyz"
LowerChar(c) ==
    IF \E i \in 1..Len(Capitals) : SubSeq(Capitals, i, i) = c
    THEN LET i == CHOOSE j \in 1..Len(Capitals) : SubSeq(Capitals, j, j) = c
         IN  SubSeq(Smalls, i, i)
    ELSE c
RECURSIVE LowerStr(_)
LowerStr(s) ==
    IF Len(s) = 0 THEN ""
    ELSE IF Len(s) = 1 THEN LowerChar(s)
    ELSE LET half == Len(s) \div 2
         IN  LowerStr(SubSeq(s, 1, half)) \o LowerStr(SubSeq(s, half + 1, Len(s)))
\* the lower-cased messages of the model
Lowered == [msg \in Messages |-> LowerStr(msg)]
\* a comparison that keeps the letter case
SameCase(msg) == msg
\* str(error).lower()
Lower(msg) == Lowered[msg]

\* keyword in error_str
Contains(str, keyword) ==
    \E i \in 1..(Len(str) - Len(keyword) + 1) : SubSeq(str, i, i + Len(keyword) - 1) = keyword

\* isinstance(error, (ValidationError, ValueError, TypeError)), subclasses included
IsValueOrTypeError(type) ==
    type \in {"ValidationError", "ValueError", "TypeError", "binascii.Error",
              "UnicodeDecodeError", "JSONDecodeError"}

categorize_error(error) ==
    LET error_str == Lower(error.msg)
    IN  IF IsValueOrTypeError(error.type) THEN "VALIDATION_ERROR"
        ELSE IF error.type = "JSONDecodeError" THEN "SCHEMA_ERROR"
        ELSE IF Contains(error_str, "throttling")
                \/ Contains(error_str, "provisionedthroughputexceeded") THEN "TRANSIENT_ERROR"
        ELSE IF Contains(error_str, "conditionalcheckfailed") THEN "BUSINESS_RULE_ERROR"
        ELSE IF \E keyword \in {"timeout", "connection", "network", "endpoint"} :
                    Contains(error_str, keyword) THEN "TRANSIENT_ERROR"
        ELSE IF Contains(error_str, "malformed") \/ Contains(error_str, "corrupt")
             THEN "POISON_PILL"
        ELSE "SYSTEM_ERROR"

\* handle_categorized_error and archive_invalid_data read record.get('kinesis', {}).get(..):
\* AttributeError when the 'kinesis' entry is not a dict
RecordMetadataRaises(record) == ~IsDict(record.kinesis)

handle_categorized_error(error, category, correlation_id) ==
    [correlation_id |-> correlation_id, error_category |-> category,
     error_type |-> error.type, error_message |-> error.msg]

\* the message send_to_dlq puts on the queue
DlqMessage(record, error_details, correlation_id) ==
    [original_record |-> record, error_details |-> error_details, retry_count |-> 0,
     max_retries |-> 3, correlation_id |-> correlation_id]

\* the object archive_invalid_data puts in the bucket
ArchiveObject(payload, validation_result, correlation_id) ==
    [correlation_id |-> correlation_id, validation_errors |-> validation_result.errors,
     validation_warnings |-> validation_result.warnings, original_payload |-> payload,
     error_category |-> "VALIDATION_ERROR"]

(***************************************************************************)
(* The trip table. An item is a function on the attributes it holds;       *)
(* update_item SET upserts: it creates the item when the key is absent.    *)
(***************************************************************************)
Min(a, b) == IF a <= b THEN a ELSE b

\* s[:n]
Prefix(s, n) == SubSeq(s, 1, Min(n, Len(s)))

StartData(event_data) ==
    [pickup_location_id |-> PyInt(event_data.pickup_location_id.v),
     dropoff_location_id |-> PyInt(event_data.dropoff_location_id.v),
     vendor_id |-> PyInt(event_data.vendor_id.v),
     pickup_datetime |-> event_data.pickup_datetime.v,
     estimated_dropoff_datetime |-> event_data.estimated_dropoff_datetime.v,
     estimated_fare_amount |-> PyDecimal(event_data.estimated_fare_amount.v)]

EndData(event_data) ==
    [dropoff_datetime |-> event_data.dropoff_datetime.v,
     rate_code |-> PyDecimal(event_data.rate_code.v),
     passenger_count |-> PyDecimal(event_data.passenger_count.v),
     trip_distance |-> PyDecimal(event_data.trip_distance.v),
     fare_amount |-> PyDecimal(event_data.fare_amount.v),
     tip_amount |-> PyDecimal(event_data.tip_amount.v),
     payment_type |-> PyDecimal(event_data.payment_type.v),
     trip_type |-> PyDecimal(event_data.trip_type.v)]

\* a plain SET attr = value
Overwrite(item, attr, value) == value

\* if_not_exists(attr, value) in a SET expression
IfNotExists(item, attr, value) == IF attr \in DOMAIN item THEN item[attr] ELSE value

\* the item a key holds before an update: the bare key when there is none
ItemOf(table, key) == IF key \in DOMAIN table THEN table[key] ELSE [trip_id |-> key]

\* a Start written as a whole item (put_item), dropping what the key held
StartUpdatePut(item, event_data, ttl) ==
    [trip_id |-> item.trip_id,
     trip_start_data |-> StartData(event_data),
     ttl_timestamp |-> ttl,
     pickup_datetime |-> event_data.pickup_datetime.v]

\* a Start merge that sets ttl_timestamp without if_not_exists
StartUpdateFreshTtl(item, event_data, ttl) ==
    [trip_start_data |-> StartData(event_data),
     ttl_timestamp |-> ttl,
     pickup_datetime |-> event_data.pickup_datetime.v] @@ item

\* the SET clause of process_trip_start, applied to the item of the key
StartUpdate(item, event_data, ttl) ==
    [trip_start_data |-> StartData(event_data),
     ttl_timestamp |-> IfNotExists(item, "ttl_timestamp", ttl),
     pickup_datetime |-> event_data.pickup_datetime.v] @@ item

\* an End written as a whole item (put_item), dropping what the key held
EndUpdatePut(item, event_data, ttl) ==
    [trip_id |-> item.trip_id,
     trip_end_data |-> EndData(event_data),
     dropoff_datetime |-> event_data.dropoff_datetime.v,
     ttl_timestamp |-> ttl]

\* an End merge that keeps the first trip_end_data (if_not_exists on the half)
EndUpdateFirstWins(item, event_data, ttl) ==
    [trip_end_data |-> IfNotExists(item, "trip_end_data", EndData(event_data)),
     dropoff_datetime |-> event_data.dropoff_datetime.v,
     ttl_timestamp |-> IfNotExists(item, "ttl_timestamp", ttl)] @@ item

\* the SET clause of process_trip_end
EndUpdate(item, event_data, ttl) ==
    [trip_end_data |-> EndData(event_data),
     dropoff_datetime |-> event_data.dropoff_datetime.v,
     ttl_timestamp |-> IfNotExists(item, "ttl_timestamp", ttl)] @@ item

\* the SET clause of mark_trip_complete; seen is the caller's post-merge item
CompleteUpdate(item, seen) ==
    [is_complete |-> TRUE,
     completion_datetime |-> seen.dropoff_datetime,
     completion_date |-> Prefix(seen.dropoff_datetime, 10)] @@ item

\* 'trip_end_data' in item and 'trip_start_data' in item
BothHalves(item) == "trip_end_data" \in DOMAIN item /\ "trip_start_data" \in DOMAIN item

\* table with key set to item
Put(table, key, item) == [k \in DOMAIN table \cup {key} |-> IF k = key THEN item ELSE table[k]]
\* table without key
Delete(table, key) == [k \in DOMAIN table \ {key} |-> table[k]]

(***************************************************************************)
(* State.                                                                  *)
(***************************************************************************)
VARIABLES
    store,      \* the DynamoDB table: trip_id -> item, on the keys that exist
    now,        \* the clock, in ticks
    pc,         \* per invocation: "idle", "loop", "merged" (between merge and completion), "done",
                \* "crashed" (an exception left lambda_handler)
    size,       \* per invocation: len(event['Records'])
    idx,        \* per invocation: record_index of the loop
    cur,        \* per invocation: the record in hand and the post-merge item it saw
    counters,   \* per invocation: the five counters of lambda_handler
    dlq,        \* messages on the dead-letter queue
    archive,    \* objects in the invalid-data bucket
    taken,      \* per invocation: the records of the batch the loop has taken so far
    gen,        \* the CSVTripDataGenerator object and the position of its simulation
    call,       \* the last direct call of validate_event_data or categorize_error, and its result
    hist        \* history per trip id: the store operations applied, in order

vars == <<store, now, pc, size, idx, cur, counters, dlq, archive, taken, hist, gen, call>>
\* the variables of the handlers
handler_vars == <<store, now, pc, size, idx, cur, counters, dlq, archive, taken, hist>>

\* no direct call yet
NoCall == [fn |-> "none"]
\* before CSVTripDataGenerator(..) is constructed
NoGenerator == [pc |-> "new"]
NoCur == [record |-> KinesisRecord("none", JsonArray), item |-> [trip_id |-> ""]]
\* counters that start with one record processed
OneProcessed == [processed_count |-> 1, error_count |-> 0, completed_trips |-> 0,
                 validation_errors |-> 0, archived_invalid |-> 0]
ZeroCounters == [processed_count |-> 0, error_count |-> 0, completed_trips |-> 0,
                 validation_errors |-> 0, archived_invalid |-> 0]
EmptyTable == [k \in {} |-> [trip_id |-> k]]

\* op: "trip_start", "trip_end" (a merge, with the payload and whether the merged item
\* held both halves), "complete" (a completion write), "fail" (an update_item call
\* that raised) or "expire"; at: the clock when it was applied
Ev(op, w, payload, both) ==
    [op |-> op, w |-> w, payload |-> payload, both |-> both, at |-> now]
Log(t, ev) == hist' = [hist EXCEPT ![t] = Append(@, ev)]

Init ==
    /\ store = EmptyTable
    /\ now = 0
    /\ pc = [w \in Handlers |-> "idle"]
    /\ size = [w \in Handlers |-> 0]
    /\ idx = [w \in Handlers |-> 0]
    /\ cur = [w \in Handlers |-> NoCur]
    /\ counters = [w \in Handlers |-> ZeroCounters]
    /\ dlq = {}
    /\ archive = {}
    /\ taken = [w \in Handlers |-> <<>>]
    /\ gen = NoGenerator
    /\ call = NoCall
    /\ hist = [t \in TripIds |-> <<>>]

\* record_correlation_id: the invocation's uuid and the record index
CorrelationId(w) == <<w, idx[w]>>
Decoded(record) == record.kinesis.data.payload

\* the loop moves to the next record
NextRecord(w) ==
    /\ idx' = [idx EXCEPT ![w] = @ + 1]
    /\ pc' = [pc EXCEPT ![w] = "loop"]
    /\ cur' = [cur EXCEPT ![w] = NoCur]

\* send_to_dlq: the message is queued, or the send fails (or no DLQ_URL is set) and
\* False is returned; either way nothing is raised
send_to_dlq(record, error_details, correlation_id) ==
    \E delivered \in BOOLEAN :
        dlq' = IF delivered THEN dlq \cup {DlqMessage(record, error_details, correlation_id)}
               ELSE dlq

\* an exception leaves the except branch: the loop and lambda_handler end with it
Escapes(w) ==
    /\ pc' = [pc EXCEPT ![w] = "crashed"]
    /\ UNCHANGED <<idx, cur, counters, dlq>>

\* an except branch that does not count a failure whose message was queued for retry
ExceptExceptionRetried(w, record, error) ==
    LET category == categorize_error(error)
        error_details == handle_categorized_error(error, category, CorrelationId(w))
    IN  IF w \in BasicWorkers
        THEN /\ counters' = [counters EXCEPT ![w].error_count = @ + 1]
             /\ NextRecord(w)
             /\ dlq' = dlq
        ELSE IF RecordMetadataRaises(record) THEN Escapes(w)
        ELSE /\ IF category \in {"TRANSIENT_ERROR", "SYSTEM_ERROR"}
                THEN send_to_dlq(record, error_details, CorrelationId(w))
                ELSE dlq' = dlq
             /\ counters' = IF dlq' = dlq THEN [counters EXCEPT ![w].error_count = @ + 1]
                            ELSE counters
             /\ NextRecord(w)

\* lambda_handler: except Exception as e
ExceptException(w, record, error) ==
    LET category == categorize_error(error)
        error_details == handle_categorized_error(error, category, CorrelationId(w))
    IN  IF w \in BasicWorkers
        THEN \* the basic handler: the error is logged and counted
             /\ counters' = [counters EXCEPT ![w].error_count = @ + 1]
             /\ NextRecord(w)
             /\ dlq' = dlq
        ELSE IF RecordMetadataRaises(record) THEN Escapes(w)
        ELSE /\ IF category \in {"TRANSIENT_ERROR", "SYSTEM_ERROR"}
                THEN send_to_dlq(record, error_details, CorrelationId(w))
                ELSE dlq' = dlq
             /\ counters' = [counters EXCEPT ![w].error_count = @ + 1]
             /\ NextRecord(w)

\* an except branch that counts the record only when its DLQ message was queued
ExceptJsonDecodeErrorMasked(w, record, error) ==
    LET error_details == handle_categorized_error(error, "SCHEMA_ERROR", CorrelationId(w))
    IN  /\ send_to_dlq(record, error_details, CorrelationId(w))
        /\ counters' = IF dlq' = dlq THEN counters
                       ELSE [counters EXCEPT ![w].error_count = @ + 1]
        /\ NextRecord(w)

\* lambda_handler: except json.JSONDecodeError as je
ExceptJsonDecodeError(w, record, error) ==
    LET error_details == handle_categorized_error(error, "SCHEMA_ERROR", CorrelationId(w))
    IN  IF RecordMetadataRaises(record) THEN Escapes(w)
        ELSE /\ send_to_dlq(record, error_details, CorrelationId(w))
             /\ counters' = [counters EXCEPT ![w].error_count = @ + 1]
             /\ NextRecord(w)

AtRecord(w) == pc[w] = "loop" /\ idx[w] < size[w]
\* the loop takes record as the next one of the batch
Take(w, record) == taken' = [taken EXCEPT ![w] = Append(@, record)]

(***************************************************************************)
(* Actions.                                                                *)
(***************************************************************************)
RECURSIVE SumOver(_, _)
SumOver(f, S) == IF S = {} THEN 0
                 ELSE LET x == CHOOSE y \in S : TRUE IN f[x] + SumOver(f, S \ {x})
\* the records of the batches handed out so far
Delivered == SumOver(size, Handlers)

\* a Lambda invocation starts on a batch of some size
Invoke(w, maxlen) ==
    /\ pc[w] = "idle"
    /\ \E len \in 0..maxlen :
          /\ Delivered + len <= MaxRecords
          /\ size' = [size EXCEPT ![w] = len]
    /\ pc' = [pc EXCEPT ![w] = "loop"]
    /\ UNCHANGED <<store, now, idx, cur, counters, dlq, archive, taken, hist, gen, call>>

\* the record's data does not decode to a JSON object
Undecodable(w, record) ==
    /\ AtRecord(w)
    /\ Take(w, record)
    /\ IF ~IsDict(record.kinesis) THEN ExceptException(w, record, StrIndexError)
       ELSE /\ record.kinesis.data.enc # "json" \/ ~IsDict(Decoded(record))
            /\ IF record.kinesis.data.enc = "bad_json"
               THEN ExceptJsonDecodeError(w, record, JsonDecodeError)
               ELSE IF record.kinesis.data.enc = "bad_base64"
                    THEN ExceptException(w, record, Base64Error)
                    ELSE ExceptException(w, record, ListHasNoGet)
    /\ UNCHANGED <<store, now, size, archive, hist, gen, call>>

\* a rejection that counts the validation error but not the error
RejectedUncounted(w, record) ==
    LET payload == Decoded(record)
        validation_result == validate_event_data(payload, NowMinutes(now))
    IN  /\ AtRecord(w)
        /\ IsDict(record.kinesis)
        /\ record.kinesis.data.enc = "json" /\ IsDict(payload)
        /\ ~validation_result.is_valid
        /\ Take(w, record)
        /\ \E archive_result \in BOOLEAN :
              /\ archive' = IF archive_result
                            THEN archive \cup {ArchiveObject(payload, validation_result,
                                                             CorrelationId(w))}
                            ELSE archive
              /\ counters' = [counters EXCEPT
                                 ![w].archived_invalid = IF archive_result THEN @ + 1 ELSE @,
                                 ![w].validation_errors = @ + 1]
        /\ NextRecord(w)
        /\ UNCHANGED <<store, now, size, dlq, hist, gen, call>>

\* validation rejects the event: archive_invalid_data, then the counters
Rejected(w, record) ==
    LET payload == Decoded(record)
        validation_result == validate_event_data(payload, NowMinutes(now))
    IN  /\ AtRecord(w)
        /\ IsDict(record.kinesis)
        /\ record.kinesis.data.enc = "json" /\ IsDict(payload)
        /\ ~validation_result.is_valid
        /\ Take(w, record)
        /\ \E archive_result \in BOOLEAN :
              /\ archive' = IF archive_result
                            THEN archive \cup {ArchiveObject(payload, validation_result,
                                                             CorrelationId(w))}
                            ELSE archive
              /\ counters' = [counters EXCEPT
                                 ![w].archived_invalid = IF archive_result THEN @ + 1 ELSE @,
                                 ![w].validation_errors = @ + 1,
                                 ![w].error_count = @ + 1]
        /\ NextRecord(w)
        /\ UNCHANGED <<store, now, size, dlq, hist, gen, call>>

\* what follows a successful merge whose ALL_NEW item is item: the completion
\* write is still to come when both halves are there, else the call returns False
AfterMerge(w, record, item) ==
    IF BothHalves(item)
    THEN /\ pc' = [pc EXCEPT ![w] = "merged"]
         /\ cur' = [cur EXCEPT ![w] = [record |-> record, item |-> item]]
         /\ UNCHANGED <<idx, counters>>
    ELSE /\ counters' = [counters EXCEPT ![w].processed_count = @ + 1]
         /\ NextRecord(w)

IsFault(ev) == ev.op = "fail"
FaultCount(t) == Len(SelectSeq(hist[t], IsFault))

\* the update_item call raises: process_trip_* re-raises to lambda_handler
StorageFailure(w, record, t, at, errs) ==
    \E error \in errs :
        /\ FaultCount(t) < MaxFaults
        /\ ExceptException(w, record, error)
        /\ Log(t, Ev("fail", w, [at |-> at, error |-> error, record |-> record,
                                  correlation_id |-> CorrelationId(w)], FALSE))
        /\ UNCHANGED store

\* process_trip_start up to and including its update_item (one atomic upsert)
process_trip_start(w, record, errs) ==
    LET event_data == Decoded(record)
        trip_id == event_data.trip_id.v
        ttl_timestamp == NowMinutes(now) + TtlMinutes
        item == StartUpdate(ItemOf(store, trip_id), event_data, ttl_timestamp)
    IN  \/ /\ store' = Put(store, trip_id, item)
           /\ Log(trip_id, Ev("trip_start", w, event_data, BothHalves(item)))
           /\ AfterMerge(w, record, item)
           /\ UNCHANGED dlq
        \/ StorageFailure(w, record, trip_id, "merge", errs)

\* process_trip_end up to and including its update_item
process_trip_end(w, record, errs) ==
    LET event_data == Decoded(record)
        trip_id == event_data.trip_id.v
        ttl_timestamp == NowMinutes(now) + TtlMinutes
        item == EndUpdate(ItemOf(store, trip_id), event_data, ttl_timestamp)
    IN  \/ /\ store' = Put(store, trip_id, item)
           /\ Log(trip_id, Ev("trip_end", w, event_data, BothHalves(item)))
           /\ AfterMerge(w, record, item)
           /\ UNCHANGED dlq
        \/ StorageFailure(w, record, trip_id, "merge", errs)

\* a record that passed validation is processed by its event type
ProcessEvent(w, record, errs) ==
    LET payload == Decoded(record)
    IN  /\ AtRecord(w)
        /\ IsDict(record.kinesis)
        /\ record.kinesis.data.enc = "json" /\ IsDict(payload)
        /\ validate_event_data(payload, NowMinutes(now)).is_valid
        /\ Take(w, record)
        /\ IF payload.event_type = Str("trip_start") THEN process_trip_start(w, record, errs)
           ELSE IF payload.event_type = Str("trip_end") THEN process_trip_end(w, record, errs)
           ELSE \* unknown event type: continue
                /\ NextRecord(w)
                /\ UNCHANGED <<store, counters, dlq, hist>>
        /\ UNCHANGED <<now, size, archive, gen, call>>

\* the keys process_trip_start and process_trip_end read from event_data
StartKeys == {"trip_id", "pickup_location_id", "dropoff_location_id", "vendor_id",
              "pickup_datetime", "estimated_dropoff_datetime", "estimated_fare_amount"}
EndKeys == {"trip_id", "dropoff_datetime", "rate_code", "passenger_count", "trip_distance",
            "fare_amount", "tip_amount", "payment_type", "trip_type"}
MissingKey(payload, keys) == \E k \in keys : k \notin DOMAIN payload

\* the basic handler's one except branch, for a failure before any storage call
BasicRaises(w, record, error) == ExceptException(w, record, error) /\ UNCHANGED <<store, hist>>

\* the loop body of the basic lambda_handler, up to and including the merge: no
\* validation, every exception is caught by the one except branch
BasicEvent(w, record, errs) ==
    /\ AtRecord(w)
    /\ Take(w, record)
    /\ IF ~IsDict(record.kinesis) THEN BasicRaises(w, record, StrIndexError)
       ELSE IF record.kinesis.data.enc = "bad_json"
            THEN BasicRaises(w, record, JsonDecodeError)
       ELSE IF record.kinesis.data.enc = "bad_base64"
            THEN BasicRaises(w, record, Base64Error)
       ELSE IF ~IsDict(Decoded(record)) THEN BasicRaises(w, record, ListHasNoGet)
       ELSE IF "event_type" \notin DOMAIN Decoded(record)
            THEN BasicRaises(w, record, KeyError)
       ELSE IF Decoded(record).event_type = Str("trip_start")
            THEN IF MissingKey(Decoded(record), StartKeys)
                 THEN BasicRaises(w, record, KeyError)
                 ELSE process_trip_start(w, record, errs)
       ELSE IF Decoded(record).event_type = Str("trip_end")
            THEN IF MissingKey(Decoded(record), EndKeys)
                 THEN BasicRaises(w, record, KeyError)
                 ELSE process_trip_end(w, record, errs)
       ELSE \* unknown event type: continue
            /\ NextRecord(w)
            /\ UNCHANGED <<store, counters, dlq, hist>>
    /\ UNCHANGED <<now, size, archive, gen, call>>

\* mark_trip_complete(trip_id, item) and the return True that follows it
mark_trip_complete(w, errs) ==
    LET item == cur[w].item
        trip_id == item.trip_id
    IN  /\ pc[w] = "merged"
        /\ \/ /\ store' = Put(store, trip_id, CompleteUpdate(ItemOf(store, trip_id), item))
              /\ Log(trip_id, Ev("complete", w, "mark", TRUE))
              /\ counters' = [counters EXCEPT ![w].completed_trips = @ + 1,
                                              ![w].processed_count = @ + 1]
              /\ NextRecord(w)
              /\ UNCHANGED dlq
           \/ StorageFailure(w, cur[w].record, trip_id, "mark", errs)
        /\ UNCHANGED <<now, size, archive, taken, gen, call>>

\* the loop is over: the summary is returned
Return(w) ==
    /\ pc[w] = "loop" /\ idx[w] = size[w]
    /\ pc' = [pc EXCEPT ![w] = "done"]
    /\ UNCHANGED <<store, now, size, idx, cur, counters, dlq, archive, taken, hist, gen, call>>

\* time passes
Tick ==
    /\ now < MaxNow
    /\ now' = now + 1
    /\ UNCHANGED <<store, pc, size, idx, cur, counters, dlq, archive, taken, hist, gen, call>>

\* the table's time-to-live reaps an item whose ttl_timestamp has passed
Expire(t) ==
    /\ t \in DOMAIN store
    /\ "ttl_timestamp" \in DOMAIN store[t]
    /\ store[t].ttl_timestamp <= NowMinutes(now)
    /\ store' = Delete(store, t)
    /\ Log(t, Ev("expire", "ttl", "ttl", FALSE))
    /\ UNCHANGED <<now, pc, size, idx, cur, counters, dlq, archive, taken, gen, call>>

\* the steps of the invocations ws on records drawn from recs, batches of at most maxlen
Step(ws, recs, maxlen) ==
    \/ \E w \in ws : Invoke(w, maxlen)
    \/ \E w \in ws, record \in recs : Undecodable(w, record)
    \/ \E w \in ws, record \in recs : Rejected(w, record)
    \/ \E w \in ws, record \in recs : ProcessEvent(w, record, StorageErrors)
    \/ \E w \in ws : mark_trip_complete(w, StorageErrors)
    \/ \E w \in ws : Return(w)
    \/ Tick
    \/ \E t \in TripIds : Expire(t)

\* reconciliation: concurrent invocations on deliveries of one trip
Next ==
    \/ \E w \in Workers : Invoke(w, MaxBatch)
    \/ \E w \in Workers, record \in Records : ProcessEvent(w, record, {ThroughputExceeded})
    \/ \E w \in Workers : mark_trip_complete(w, {ThroughputExceeded})
    \/ \E w \in Workers : Return(w)
    \/ Tick
    \/ \E t \in TripIds : Expire(t)

Spec == Init /\ [][Next]_vars

\* accounting: one invocation on a batch of every kind of record
NextBatch == Step({"w1"}, BatchRecords, MaxBatchSingle)

SpecBatch == Init /\ [][NextBatch]_vars

\* validation at work: one invocation on events at the edges of the rules
NextEdge == Step({"w1"}, EdgeRecords, MaxBatchSingle)

SpecEdge == Init /\ [][NextEdge]_vars

\* one invocation of the basic handler on a batch of any records
NextBasic ==
    \/ \E w \in BasicWorkers : Invoke(w, MaxBatchSingle)
    \/ \E w \in BasicWorkers, record \in BasicRecords : BasicEvent(w, record, StorageErrors)
    \/ \E w \in BasicWorkers : mark_trip_complete(w, StorageErrors)
    \/ \E w \in BasicWorkers : Return(w)
    \/ Tick
    \/ \E t \in TripIds : Expire(t)

SpecBasic == Init /\ [][NextBasic]_vars

(***************************************************************************)
(* The two handlers on one event: the enhanced lambda_handler runs on a    *)
(* batch, the table is put back to what it held before, and the basic      *)
(* lambda_handler runs on the same batch at the same instant, its          *)
(* update_item calls raising exactly where the first run's did.            *)
(***************************************************************************)
\* events that pass validation, among them one that carries a warning (OLD_PICKUP)
PairRecords == Records \cup {EdgeStart("2024-05-19T23:59:00")}
\* what the table may hold before the batch: nothing, or one half of T1
SeedStores ==
    {EmptyTable,
     Put(EmptyTable, "T1", StartUpdate(ItemOf(EmptyTable, "T1"), StartPayload("T1", StartBodyA),
                                       NowMinutes(0) + TtlMinutes)),
     Put(EmptyTable, "T1", EndUpdate(ItemOf(EmptyTable, "T1"), EndPayload("T1", EndBodyA),
                                     NowMinutes(0) + TtlMinutes))}
NoHistory == [t \in TripIds |-> <<>>]

\* the table's content before the batch
Seed(table) ==
    /\ call = NoCall /\ pc["w1"] = "idle"
    /\ store' = table
    /\ call' = [fn |-> "seed", store0 |-> table]
    /\ UNCHANGED <<now, pc, size, idx, cur, counters, dlq, archive, taken, hist, gen>>

\* the enhanced run is over: its summary, table and update_item outcomes are kept,
\* and the table is put back
Restore(w) ==
    /\ call.fn = "seed" /\ pc[w] = "done"
    /\ call' = [fn |-> "lambda_handler", store0 |-> call.store0, store |-> store,
                counters |-> counters[w], taken |-> taken[w], hist |-> hist]
    /\ store' = call.store0
    /\ hist' = NoHistory
    /\ UNCHANGED <<now, pc, size, idx, cur, counters, dlq, archive, taken, gen>>

\* the basic handler is invoked on the event the enhanced one had
InvokeSame(b, w) ==
    /\ call.fn = "lambda_handler" /\ pc[b] = "idle"
    /\ size' = [size EXCEPT ![b] = size[w]]
    /\ pc' = [pc EXCEPT ![b] = "loop"]
    /\ UNCHANGED <<store, now, idx, cur, counters, dlq, archive, taken, hist, gen, call>>

\* the errors update_item raised for record i of invocation w, at its merge or its
\* completion write
RaisedAt(h, w, i, at) ==
    UNION {{<<t, h[t][k].payload.error>> :
                k \in {j \in DOMAIN h[t] : /\ h[t][j].op = "fail"
                                           /\ h[t][j].payload.correlation_id = <<w, i>>
                                           /\ h[t][j].payload.at = at}} :
           t \in TripIds}
\* this step of b is on the record the run of w had at this place, and its
\* update_item call raises what the call of w raised, or nothing
SameRecordAndOutcome(b, w, at) ==
    /\ call.fn = "lambda_handler"
    /\ Len(taken'[b]) <= Len(call.taken)
    /\ taken'[b] = SubSeq(call.taken, 1, Len(taken'[b]))
    /\ {r[2] : r \in RaisedAt(hist', b, idx[b], at)} = {r[2] : r \in RaisedAt(call.hist, w, idx[b], at)}

NextPair ==
    \/ \E table \in SeedStores : Seed(table)
    \/ call.fn = "seed" /\ Invoke("w1", MaxBatchSingle)
    \/ \E record \in PairRecords : ProcessEvent("w1", record, StorageErrors)
    \/ mark_trip_complete("w1", StorageErrors)
    \/ Return("w1")
    \/ Restore("w1")
    \/ InvokeSame("b1", "w1")
    \/ \E record \in PairRecords :
           BasicEvent("b1", record, StorageErrors) /\ SameRecordAndOutcome("b1", "w1", "merge")
    \/ mark_trip_complete("b1", StorageErrors) /\ SameRecordAndOutcome("b1", "w1", "mark")
    \/ Return("b1")

SpecPair == Init /\ [][NextPair]_vars

(***************************************************************************)
(* What the history of a trip id says.                                     *)
(***************************************************************************)
IsMerge(ev) == ev.op \in {"trip_start", "trip_end"}
IsCompletion(ev) == ev.op = "complete"
IsExpiry(ev) == ev.op = "expire"
\* the merges applied to t, in order
Merges(t) == SelectSeq(hist[t], IsMerge)
\* the process_trip_start/process_trip_end calls on t that returned True
TrueReturns(t) == Len(SelectSeq(hist[t], IsCompletion))
\* a storage call on t raised, or the store expired t
Faulted(t) == \E i \in DOMAIN hist[t] : IsFault(hist[t][i]) \/ IsExpiry(hist[t][i])
HasMerge(t, op) == \E i \in DOMAIN hist[t] : hist[t][i].op = op
\* no invocation is between its merge and its completion write for t
Quiet(t) == \A w \in Workers : pc[w] = "merged" => cur[w].item.trip_id # t
IsComplete(item) == "is_complete" \in DOMAIN item /\ item.is_complete
AllDone == \A w \in Workers : pc[w] = "done"

(***************************************************************************)
(* C1. Exactly-once completion: over any sequence of successful Start and  *)
(* End merges of a trip id (no storage call raised, nothing expired), at   *)
(* most one process_trip_start/process_trip_end call returns True, and     *)
(* exactly one has once both halves are merged and no call is under way.   *)
(***************************************************************************)
C1_ExactlyOnceCompletion ==
    \A t \in TripIds :
        ~Faulted(t) =>
            /\ TrueReturns(t) <= 1
            /\ (Quiet(t) /\ HasMerge(t, "trip_start") /\ HasMerge(t, "trip_end"))
                   => TrueReturns(t) = 1

(***************************************************************************)
(* C2. In every state of the store an item with is_complete = true holds   *)
(* both trip_start_data and trip_end_data; and after a completion write,   *)
(* as long as the item has not expired since, the item is there with       *)
(* is_complete = true.                                                     *)
(***************************************************************************)
CompletedAndKept(t) ==
    \E i \in DOMAIN hist[t] :
        /\ IsCompletion(hist[t][i])
        /\ \A j \in DOMAIN hist[t] : j > i => ~IsExpiry(hist[t][j])

C2_CompleteHoldsBothHalves ==
    \A t \in TripIds :
        /\ (t \in DOMAIN store /\ IsComplete(store[t])) => BothHalves(store[t])
        /\ CompletedAndKept(t) => (t \in DOMAIN store /\ IsComplete(store[t]))

(***************************************************************************)
(* C3. A completed record is never lost: when every invocation has         *)
(* returned, an item that holds both halves has is_complete = true, also   *)
(* when a completion write failed and the failure went to the handler.     *)
(***************************************************************************)
\* every failed storage call on t was routed: its message is on the dead-letter queue
Routed(t) == FaultCount(t) = 0 \/ dlq # {}

C3_CompletedNeverLost ==
    \A t \in TripIds :
        (AllDone /\ Routed(t) /\ t \in DOMAIN store /\ BothHalves(store[t]))
            => IsComplete(store[t])

(***************************************************************************)
(* C4. Two invocations that merge the Start and the End of a trip id, each *)
(* delivered once to an absent item and with no storage call raising or    *)
(* expiry between: the item holds both halves, exactly one of the two (the *)
(* later merge) sees both halves in its post-merge item, and once that one *)
(* has returned the item has is_complete = true and one call returned True.*)
(***************************************************************************)
OneStartOneEnd(t) ==
    /\ ~Faulted(t)
    /\ Len(Merges(t)) = 2
    /\ Merges(t)[1].op # Merges(t)[2].op
    /\ Merges(t)[1].w # Merges(t)[2].w

C4_ConcurrentHalvesNoLostUpdate ==
    \A t \in TripIds :
        OneStartOneEnd(t) =>
            /\ t \in DOMAIN store /\ BothHalves(store[t])
            /\ ~Merges(t)[1].both /\ Merges(t)[2].both
            /\ TrueReturns(t) <= 1
            /\ Quiet(t) => (IsComplete(store[t]) /\ TrueReturns(t) = 1)

C4_Witness ==
    /\ OneStartOneEnd("T1") /\ Quiet("T1")
    /\ Merges("T1")[1].op = "trip_end"
    /\ IsComplete(store["T1"])

(***************************************************************************)
(* C5. Order independence: Start then End, and End then Start, from an     *)
(* absent item end in the same item on trip_start_data, trip_end_data,     *)
(* pickup_datetime, dropoff_datetime, is_complete, completion_datetime and *)
(* completion_date. The run of the handler in one order is compared with   *)
(* the two calls applied in the other order.                               *)
(***************************************************************************)
ComparedAttributes == {"trip_start_data", "trip_end_data", "pickup_datetime", "dropoff_datetime",
                       "is_complete", "completion_datetime", "completion_date"}
Compared(item) == [a \in DOMAIN item \cap ComparedAttributes |-> item[a]]

\* process_trip_start / process_trip_end run to their return on an item, at the clock n
StartCall(item, event_data, n) ==
    LET merged == StartUpdate(item, event_data, NowMinutes(n) + TtlMinutes)
    IN  IF BothHalves(merged) THEN CompleteUpdate(merged, merged) ELSE merged
EndCall(item, event_data, n) ==
    LET merged == EndUpdate(item, event_data, NowMinutes(n) + TtlMinutes)
    IN  IF BothHalves(merged) THEN CompleteUpdate(merged, merged) ELSE merged
Call(item, ev) == IF ev.op = "trip_start" THEN StartCall(item, ev.payload, ev.at)
                  ELSE EndCall(item, ev.payload, ev.at)

\* the history of t is one Start and one End merge, each run to its return
TwoHalvesInOrder(t) ==
    /\ ~Faulted(t) /\ Quiet(t)
    /\ Len(Merges(t)) = 2
    /\ Merges(t)[1].op # Merges(t)[2].op

C5_OrderIndependence ==
    \A t \in TripIds :
        TwoHalvesInOrder(t) =>
            /\ t \in DOMAIN store
            /\ Compared(store[t])
                   = Compared(Call(Call([trip_id |-> t], Merges(t)[2]), Merges(t)[1]))

C5_Witness ==
    /\ TwoHalvesInOrder("T1")
    /\ Merges("T1")[1].op = "trip_end"
    /\ Merges("T1")[2].payload = StartPayload("T1", StartBodyB)
    /\ store["T1"].completion_date = "2024-05-26"

(***************************************************************************)
(* C6. Idempotence of duplicate delivery: when a call of process_trip_start*)
(* (or process_trip_end) has run to its return and the same payload is     *)
(* processed again with nothing between, neither the merge nor the         *)
(* completion write of the second call changes the item (ttl_timestamp and *)
(* every other attribute), and the half equals what the merge builds from  *)
(* the payload.                                                            *)
(***************************************************************************)
\* where the call that ends the history h began, 0 when h does not end with a call
\* that ran from its merge to its return with nothing between
LastCall(h) ==
    IF Len(h) >= 1 /\ IsMerge(h[Len(h)]) /\ ~h[Len(h)].both THEN Len(h)
    ELSE IF /\ Len(h) >= 2
            /\ IsCompletion(h[Len(h)])
            /\ IsMerge(h[Len(h) - 1]) /\ h[Len(h) - 1].both
            /\ h[Len(h) - 1].w = h[Len(h)].w
         THEN Len(h) - 1
         ELSE 0

SameDelivery(e1, e2) == e1.op = e2.op /\ e1.payload = e2.payload
HalfOf(item, ev) == IF ev.op = "trip_start" THEN item.trip_start_data ELSE item.trip_end_data
DataOf(ev) == IF ev.op = "trip_start" THEN StartData(ev.payload) ELSE EndData(ev.payload)

\* this step is the merge of a duplicate of the call that ended the history
DuplicateMerge(t) ==
    /\ LastCall(hist[t]) > 0
    /\ Len(hist'[t]) = Len(hist[t]) + 1
    /\ IsMerge(hist'[t][Len(hist'[t])])
    /\ SameDelivery(hist'[t][Len(hist'[t])], hist[t][LastCall(hist[t])])

\* this step is the completion write of such a duplicate
DuplicateCompletion(t) ==
    LET h == hist[t]
        before == SubSeq(h, 1, Len(h) - 1)
    IN  /\ Len(h) >= 2 /\ IsMerge(h[Len(h)]) /\ h[Len(h)].both
        /\ LastCall(before) > 0
        /\ SameDelivery(h[Len(h)], before[LastCall(before)])
        /\ Len(hist'[t]) = Len(h) + 1
        /\ IsCompletion(hist'[t][Len(h) + 1])
        /\ hist'[t][Len(h) + 1].w = h[Len(h)].w

C6_DuplicateIdempotent ==
    [][\A t \in TripIds :
          /\ DuplicateMerge(t) =>
                 /\ t \in DOMAIN store /\ store'[t] = store[t]
                 /\ HalfOf(store'[t], hist'[t][Len(hist'[t])]) = DataOf(hist'[t][Len(hist'[t])])
          /\ DuplicateCompletion(t) => (t \in DOMAIN store /\ store'[t] = store[t])]_vars

\* a Start was processed twice in a row, at different times, each call completing the trip
C6_Witness ==
    LET h == hist["T1"]
        k == LastCall(h)
        before == SubSeq(h, 1, k - 1)
    IN  /\ k > 0 /\ h[k].op = "trip_start" /\ h[k].both /\ h[k].at = 1
        /\ LastCall(before) > 0
        /\ SameDelivery(h[k], before[LastCall(before)])
        /\ before[LastCall(before)].at = 0

C8_CompletionMatchesEnd ==
    \A t \in TripIds :
        (~Faulted(t) /\ Quiet(t) /\ t \in DOMAIN store /\ IsComplete(store[t])) =>
            /\ "trip_end_data" \in DOMAIN store[t]
            /\ store[t].completion_datetime = store[t].trip_end_data.dropoff_datetime
            /\ store[t].completion_date = Prefix(store[t].completion_datetime, 10)

(***************************************************************************)
(* C9. is_complete and completion_date are set exactly once per trip:      *)
(* once an item has is_complete = true, no later step on it writes         *)
(* is_complete, completion_datetime or completion_date again or changes    *)
(* their values.                                                           *)
(***************************************************************************)
C9_CompletionWrittenOnce ==
    [][\A t \in TripIds :
          (t \in DOMAIN store /\ IsComplete(store[t]) /\ t \in DOMAIN store') =>
              /\ IsComplete(store'[t])
              /\ store'[t].completion_datetime = store[t].completion_datetime
              /\ store'[t].completion_date = store[t].completion_date
              /\ TrueReturns(t)' = TrueReturns(t)]_vars

(***************************************************************************)
(* C10. The batch counters account for every record: at every point of the *)
(* loop of the enhanced lambda_handler processed_count + error_count is    *)
(* the number of records handled so far, and in the returned summary it is *)
(* the number of records of the batch, whatever mix of valid, rejected,    *)
(* undecodable and storage-failing records the batch holds.                *)
(***************************************************************************)
Accounted(w) == counters[w].processed_count + counters[w].error_count

C10_CountersAccountForRecords ==
    \A w \in Workers :
        /\ pc[w] \in {"loop", "merged"} => Accounted(w) = idx[w]
        /\ pc[w] = "done" => Accounted(w) = size[w]

\* a returned batch of three: one processed, one rejected by validation, one raised
C10_Witness ==
    /\ pc["w1"] = "done" /\ size["w1"] = 3
    /\ counters["w1"].processed_count = 1
    /\ counters["w1"].validation_errors = 1
    /\ counters["w1"].error_count = 2

(***************************************************************************)
(* C11. No per-record failure escapes the batch: whatever a record holds   *)
(* and whichever step fails for it, no exception leaves lambda_handler     *)
(* (the except branches included), and the summary is returned only after  *)
(* every record of the batch was taken.                                    *)
(***************************************************************************)
C11_NoFailureEscapes ==
    \A w \in Workers :
        /\ pc[w] # "crashed"
        /\ pc[w] = "done" => (idx[w] = size[w] /\ Len(taken[w]) = size[w])

(***************************************************************************)
(* C12. End to end: a batch of one schema-valid Start and one schema-valid *)
(* End of the same trip id with past UTC timestamps written with a         *)
(* trailing 'Z', in either order, on an empty store (no storage call       *)
(* raising, nothing expiring), returns processed_count = 2,                *)
(* completed_trips = 1, error_count = 0 and leaves the trip complete.      *)
(***************************************************************************)
ZuluStart == KinesisRecord("json", StartPayload("T1", StartBodyZ))
ZuluEnd == KinesisRecord("json", EndPayload("T1", EndBodyZ))

C12_ZuluBatchCompletes ==
    (/\ pc["w1"] = "done"
     /\ taken["w1"] \in {<<ZuluStart, ZuluEnd>>, <<ZuluEnd, ZuluStart>>}
     /\ ~Faulted("T1"))
        => /\ counters["w1"].processed_count = 2
           /\ counters["w1"].completed_trips = 1
           /\ counters["w1"].error_count = 0
           /\ "T1" \in DOMAIN store /\ IsComplete(store["T1"])

(***************************************************************************)
(* C13. Rejected events never touch the store: in the step that takes a    *)
(* record whose validation result has is_valid = false, the handler calls  *)
(* archive_invalid_data (the object is stored, or the archive fails and    *)
(* nothing is), counts a validation error, and leaves the table and its    *)
(* history as they were. An End whose dropoff time is in the future is     *)
(* such a record: its only error is FUTURE_DROPOFF.                        *)
(***************************************************************************)
LastTaken(w) == taken'[w][Len(taken'[w])]
Takes(w) == Len(taken'[w]) = Len(taken[w]) + 1
\* the record decodes to a JSON object that validation rejects now
IsRejected(record) ==
    /\ IsDict(record.kinesis)
    /\ record.kinesis.data.enc = "json" /\ IsDict(Decoded(record))
    /\ ~validate_event_data(Decoded(record), NowMinutes(now)).is_valid

ArchivedFor(w, record) ==
    ArchiveObject(Decoded(record), validate_event_data(Decoded(record), NowMinutes(now)),
                  CorrelationId(w))

FutureEnd == KinesisRecord("json", EndPayload("T1", EndBodyFuture))

C13_RejectedLeavesStore ==
    [][/\ \A w \in Workers :
             (Takes(w) /\ IsRejected(LastTaken(w))) =>
                 /\ store' = store /\ hist' = hist /\ dlq' = dlq
                 /\ counters'[w].validation_errors = counters[w].validation_errors + 1
                 /\ \/ /\ archive' = archive \cup {ArchivedFor(w, LastTaken(w))}
                       /\ counters'[w].archived_invalid = counters[w].archived_invalid + 1
                    \/ /\ archive' = archive
                       /\ counters'[w].archived_invalid = counters[w].archived_invalid
       /\ validate_event_data(Decoded(FutureEnd), NowMinutes(now)).errors
              = <<Err("FUTURE_DROPOFF", "dropoff_datetime")>>]_vars

\* a Start was merged, then the future End was rejected and archived: the item is
\* still the Start alone
C13_Witness ==
    /\ Len(taken["w1"]) = 2
    /\ taken["w1"][1] = KinesisRecord("json", StartPayload("T1", StartBodyA))
    /\ taken["w1"][2] = FutureEnd
    /\ counters["w1"].archived_invalid = 1
    /\ \E o \in archive : o.validation_errors = <<Err("FUTURE_DROPOFF", "dropoff_datetime")>>
    /\ "T1" \in DOMAIN store
    /\ "trip_start_data" \in DOMAIN store["T1"] /\ "trip_end_data" \notin DOMAIN store["T1"]

(***************************************************************************)
(* C14. Every record whose storage failure is classified TRANSIENT_ERROR,  *)
(* SYSTEM_ERROR or POISON_PILL is on the dead-letter queue as exactly one  *)
(* message, carrying the original record, the category, retry_count = 0,   *)
(* max_retries = 3 and the record's correlation id.                        *)
(***************************************************************************)
DlqCategories == {"TRANSIENT_ERROR", "SYSTEM_ERROR", "POISON_PILL"}
MessagesFor(correlation_id) == {m \in dlq : m.correlation_id = correlation_id}

C14_FailuresDeadLettered ==
    \A t \in TripIds : \A i \in DOMAIN hist[t] :
        (IsFault(hist[t][i]) /\ categorize_error(hist[t][i].payload.error) \in DlqCategories) =>
            LET f == hist[t][i].payload
            IN  /\ Cardinality(MessagesFor(f.correlation_id)) = 1
                /\ \A m \in MessagesFor(f.correlation_id) :
                      /\ m.original_record = f.record
                      /\ m.error_details.error_category = categorize_error(f.error)
                      /\ m.retry_count = 0 /\ m.max_retries = 3

(***************************************************************************)
(* C15. No record whose failure is classified VALIDATION_ERROR or          *)
(* SCHEMA_ERROR is on the dead-letter queue, and every record the loop is  *)
(* done with whose decoding failed that way (bad base64: VALIDATION_ERROR, *)
(* bad JSON: SCHEMA_ERROR) has an object in the archive.                   *)
(***************************************************************************)
ArchiveCategories == {"VALIDATION_ERROR", "SCHEMA_ERROR"}
\* the i-th record taken by w failed to decode
DecodeFailed(w, i) ==
    /\ i <= idx[w]
    /\ IsDict(taken[w][i].kinesis)
    /\ taken[w][i].kinesis.data.enc \in {"bad_base64", "bad_json"}

C15_NeverDeadLettered ==
    /\ \A m \in dlq : m.error_details.error_category \notin ArchiveCategories
    /\ \A w \in Workers : \A i \in DOMAIN taken[w] :
          DecodeFailed(w, i) => \E o \in archive : o.correlation_id = <<w, i - 1>>

(***************************************************************************)
(* C16. A failure of an auxiliary step never masks the record's            *)
(* disposition: in the step where archive_invalid_data fails for a         *)
(* rejected record, the record is counted in error_count and in            *)
(* validation_errors, archived_invalid stays, and the loop goes on to the  *)
(* next record; in the step where send_to_dlq fails for a record whose     *)
(* failure is sent there, the record is counted in error_count and the     *)
(* loop goes on.                                                           *)
(***************************************************************************)
\* in this step a storage call of w raised an error the handler sends to the DLQ
StorageFailedNow(w) ==
    \E t \in TripIds :
        /\ Len(hist'[t]) = Len(hist[t]) + 1
        /\ IsFault(hist'[t][Len(hist'[t])])
        /\ hist'[t][Len(hist'[t])].w = w
        /\ categorize_error(hist'[t][Len(hist'[t])].payload.error)
               \in {"TRANSIENT_ERROR", "SYSTEM_ERROR"}
\* in this step w took a record that is not JSON, or is JSON but no object
DecodeFailedNow(w) ==
    /\ Takes(w)
    /\ IsDict(LastTaken(w).kinesis)
    /\ \/ LastTaken(w).kinesis.data.enc = "bad_json"
       \/ LastTaken(w).kinesis.data.enc = "json" /\ ~IsDict(Decoded(LastTaken(w)))
LoopGoesOn(w) == pc'[w] = "loop" /\ idx'[w] = idx[w] + 1

C16_AuxiliaryFailureKeepsDisposition ==
    [][\A w \in Workers :
          /\ (Takes(w) /\ IsRejected(LastTaken(w)) /\ archive' = archive) =>
                 /\ counters'[w].error_count = counters[w].error_count + 1
                 /\ counters'[w].validation_errors = counters[w].validation_errors + 1
                 /\ counters'[w].archived_invalid = counters[w].archived_invalid
                 /\ LoopGoesOn(w)
          /\ ((StorageFailedNow(w) \/ DecodeFailedNow(w)) /\ dlq' = dlq) =>
                 /\ counters'[w].error_count = counters[w].error_count + 1
                 /\ counters'[w].validation_errors = counters[w].validation_errors
                 /\ LoopGoesOn(w)]_vars

\* a returned batch of three: a rejected event whose archive failed, undecodable JSON
\* whose DLQ send failed, and a Start that was then merged
C16_Witness ==
    /\ pc["w1"] = "done" /\ Len(taken["w1"]) = 3
    /\ taken["w1"][1] = FutureEnd
    /\ taken["w1"][2] = KinesisRecord("bad_json", JsonArray)
    /\ archive = {} /\ dlq = {}
    /\ counters["w1"] = [processed_count |-> 1, error_count |-> 2, completed_trips |-> 0,
                         validation_errors |-> 1, archived_invalid |-> 0]
    /\ "T1" \in DOMAIN store

(***************************************************************************)
(* C20. The completion step writes only on the first completion: when the  *)
(* post-merge item of a process_trip_start/process_trip_end call is        *)
(* already complete, or holds only one half, the call returns False and    *)
(* no completion write follows the merge.                                  *)
(***************************************************************************)
\* in this step w merged a payload into t
MergedNow(w, t) ==
    /\ Len(hist'[t]) = Len(hist[t]) + 1
    /\ IsMerge(hist'[t][Len(hist'[t])])
    /\ hist'[t][Len(hist'[t])].w = w

C20_CompletionStepWritesOnce ==
    [][\A w \in Workers, t \in TripIds :
          (MergedNow(w, t) /\ (IsComplete(store'[t]) \/ ~BothHalves(store'[t])))
              => pc'[w] # "merged"]_vars

(***************************************************************************)
(* C17. lambda_handler called with an empty Records list returns its       *)
(* summary with processed_count = 0 and every other counter 0, and has     *)
(* written nothing to the table, the archive or the dead-letter queue.     *)
(***************************************************************************)
C17_EmptyBatch ==
    \A w \in Handlers :
        (pc[w] = "done" /\ size[w] = 0) =>
            /\ counters[w].processed_count = 0
            /\ counters[w].error_count = 0
            /\ counters[w].completed_trips = 0
            /\ counters[w].validation_errors = 0
            /\ counters[w].archived_invalid = 0
            /\ taken[w] = <<>>
            /\ store = EmptyTable /\ archive = {} /\ dlq = {}
            /\ \A t \in TripIds : hist[t] = <<>>

C17_Witness == pc["b1"] = "done" /\ size["b1"] = 0

(***************************************************************************)
(* C18. The basic lambda_handler counts every trip_start record in         *)
(* processed_count: a batch of one record whose payload is a trip_start    *)
(* carrying only event_type and trip_id returns processed_count = 1.       *)
(***************************************************************************)
C18_MinimalStartProcessed ==
    (/\ pc["b1"] = "done"
     /\ taken["b1"] = <<KinesisRecord("json", MinimalStart("T1"))>>)
        => counters["b1"].processed_count = 1


\* ---------------------------------------------------------------------------
\* src/utils/csv_trip_generator.py: CSVTripDataGenerator
\* ---------------------------------------------------------------------------

\* rows per CSV file
MaxRows == 2
\* largest batch_size / burst_size
MaxGenBatch == 2

\* the value pandas gives an empty cell
NaN == [ty |-> "nan", v |-> 0]
\* the cells a numeric column of a loaded row can hold
Cells == {Num(10 * Milli), NaN}
SeqsUpTo(S, n) == UNION {[1..k -> S] : k \in 0..n}
RowTrip(i) == IF i = 1 THEN "T1" ELSE "T2"
\* row i of trip_start.csv / trip_end.csv, as to_dict('records') returns it
StartRow(i, cell) == [kind |-> "trip_start", n |-> i, trip_id |-> RowTrip(i), pickup_location_id |-> cell]
EndRow(i, cell) == [kind |-> "trip_end", n |-> i, trip_id |-> RowTrip(i), passenger_count |-> cell]

\* int(x) raises ValueError on NaN; float(x) returns NaN
IntRaises(cell) == cell = NaN
PyFloat(cell) == cell
\* csv_row_to_trip_start_event raises when an int(...) of it does
StartRowRaises(row) == IntRaises(row.pickup_location_id)
csv_row_to_trip_start_event(row) ==
    [event_type |-> Str("trip_start"), trip_id |-> Str(row.trip_id),
     pickup_location_id |-> Num(PyInt(row.pickup_location_id.v))]
csv_row_to_trip_end_event(row) ==
    [event_type |-> Str("trip_end"), trip_id |-> Str(row.trip_id),
     passenger_count |-> PyFloat(row.passenger_count)]

\* list.pop(i), one-based: the list without its i-th element
Pop(s, i) == SubSeq(s, 1, i - 1) \o SubSeq(s, i + 1, Len(s))

get_remaining_counts ==
    [trip_start_remaining |-> Len(gen.trip_start_data),
     trip_end_remaining |-> Len(gen.trip_end_data),
     total_remaining |-> Len(gen.trip_start_data) + Len(gen.trip_end_data)]

\* CSVTripDataGenerator(...): both files are read into lists, the counters start at zero.
\* loaded and returned are history: the rows read, and the rows get_next_event has returned.
GeneratorInit(cs, ce) ==
    /\ gen.pc = "new"
    /\ LET starts == [i \in 1..Len(cs) |-> StartRow(i, cs[i])]
           ends == [i \in 1..Len(ce) |-> EndRow(i, ce[i])]
       IN gen' = [pc |-> "ready",
                  trip_start_data |-> starts, trip_end_data |-> ends,
                  original_start_count |-> Len(starts), original_end_count |-> Len(ends),
                  events_sent |-> 0, errors |-> 0,
                  start_events_sent |-> 0, end_events_sent |-> 0,
                  mode |-> "none", batch_size |-> 0, left |-> 0, batch_events |-> <<>>,
                  loaded |-> starts \o ends, returned |-> <<>>]
    /\ UNCHANGED <<handler_vars, call>>

\* simulate_streaming(batch_size=..): the first pass of `while True` begins with an empty batch
simulate_streaming(batch_size) ==
    /\ gen.pc = "ready"
    /\ gen' = [gen EXCEPT !.pc = "collect", !.mode = "streaming", !.batch_size = batch_size,
                          !.left = batch_size, !.batch_events = <<>>]
    /\ UNCHANGED <<handler_vars, call>>
\* simulate_burst_traffic(burst_size=..): the same loop over bursts
simulate_burst_traffic(burst_size) ==
    /\ gen.pc = "ready"
    /\ gen' = [gen EXCEPT !.pc = "collect", !.mode = "burst", !.batch_size = burst_size,
                          !.left = burst_size, !.batch_events = <<>>]
    /\ UNCHANGED <<handler_vars, call>>

\* get_next_event returned None: the for loop breaks; an empty batch ends `while True`
ReturnedNone ==
    gen' = [gen EXCEPT !.pc = IF gen.batch_events = <<>> THEN "stats" ELSE "send", !.left = 0]
\* get_next_event returned an event: it joins the batch; a full batch is sent
ReturnedEvent(popped, row, event) ==
    gen' = [popped EXCEPT !.batch_events = Append(@, event),
                          !.returned = Append(@, row),
                          !.left = @ - 1,
                          !.pc = IF gen.left = 1 THEN "send" ELSE "collect"]
\* the row is popped first, then converted; a conversion that raises leaves
\* get_next_event and the simulation with the row already removed
TakeStart(i) ==
    LET row == gen.trip_start_data[i]
        popped == [gen EXCEPT !.trip_start_data = Pop(@, i)]
    IN IF StartRowRaises(row)
       THEN gen' = [popped EXCEPT !.pc = "crashed"]
       ELSE ReturnedEvent(popped, row, csv_row_to_trip_start_event(row))
TakeEnd(i) ==
    LET row == gen.trip_end_data[i]
        popped == [gen EXCEPT !.trip_end_data = Pop(@, i)]
    IN ReturnedEvent(popped, row, csv_row_to_trip_end_event(row))

\* one call of get_next_event from the collecting loop; prefer_start is random.random() < 0.7
get_next_event(prefer_start) ==
    /\ gen.pc = "collect"
    /\ LET trip_start_available == Len(gen.trip_start_data) > 0
           trip_end_available == Len(gen.trip_end_data) > 0
       IN IF ~trip_start_available /\ ~trip_end_available THEN ReturnedNone
          ELSE IF trip_start_available /\ ~trip_end_available
               THEN \E i \in DOMAIN gen.trip_start_data : TakeStart(i)
          ELSE IF trip_end_available /\ ~trip_start_available
               THEN \E i \in DOMAIN gen.trip_end_data : TakeEnd(i)
          ELSE IF prefer_start
               THEN \E i \in DOMAIN gen.trip_start_data : TakeStart(i)
               ELSE \E i \in DOMAIN gen.trip_end_data : TakeEnd(i)
    /\ UNCHANGED <<handler_vars, call>>

\* send_event_to_kinesis for the next event of the batch: put_record succeeds (ok) or
\* raises and is counted; after the last event the next pass of `while True` begins
send_event_to_kinesis(ok) ==
    /\ gen.pc = "send"
    /\ LET event_data == Head(gen.batch_events)
           rest == Tail(gen.batch_events)
           counted == IF ~ok THEN [gen EXCEPT !.errors = @ + 1]
                      ELSE IF event_data.event_type = Str("trip_start")
                           THEN [gen EXCEPT !.events_sent = @ + 1, !.start_events_sent = @ + 1]
                           ELSE [gen EXCEPT !.events_sent = @ + 1, !.end_events_sent = @ + 1]
       IN gen' = IF rest = <<>>
                 THEN [counted EXCEPT !.batch_events = <<>>, !.left = gen.batch_size, !.pc = "collect"]
                 ELSE [counted EXCEPT !.batch_events = rest]
    /\ UNCHANGED <<handler_vars, call>>

log_final_statistics ==
    /\ gen.pc = "stats"
    /\ gen' = [gen EXCEPT !.pc = "finished"]
    /\ UNCHANGED <<handler_vars, call>>

NextGen ==
    \/ \E cs \in SeqsUpTo(Cells, MaxRows), ce \in SeqsUpTo(Cells, MaxRows) : GeneratorInit(cs, ce)
    \/ \E batch_size \in 1..MaxGenBatch : simulate_streaming(batch_size)
    \/ \E burst_size \in 1..MaxGenBatch : simulate_burst_traffic(burst_size)
    \/ \E prefer_start \in BOOLEAN : get_next_event(prefer_start)
    \/ \E ok \in BOOLEAN : send_event_to_kinesis(ok)
    \/ log_final_statistics
SpecGen == Init /\ [][NextGen]_vars

\* the number of times row r occurs in the list s
Occurrences(s, r) == Cardinality({i \in DOMAIN s : s[i] = r})
EveryRowOnce == \A i \in DOMAIN gen.loaded : Occurrences(gen.returned, gen.loaded[i]) = 1

\* C19: a simulation never leaves by an exception, and when it has ended the lists are
\* empty, every loaded row was returned by get_next_event exactly once, and
\* events_sent + errors is the number of rows loaded.
C19_GeneratorExhausts ==
    /\ gen.pc # "crashed"
    /\ gen.pc = "finished" =>
          /\ get_remaining_counts.total_remaining = 0
          /\ EveryRowOnce
          /\ gen.events_sent + gen.errors = gen.original_start_count + gen.original_end_count

(***************************************************************************)
(* C21. Last-writer-wins per half, no cross-half effect: a Start merge     *)
(* sets trip_start_data and pickup_datetime to those of its payload and    *)
(* leaves trip_end_data and dropoff_datetime as they were; an End merge    *)
(* sets trip_end_data and dropoff_datetime and leaves trip_start_data and  *)
(* pickup_datetime; no other write of a handler touches the four, so each  *)
(* half is that of the most recent merge of its kind.                      *)
(***************************************************************************)
\* the attribute attr of the item of t, as a sequence: empty when there is none
Attr(table, t, attr) ==
    IF t \in DOMAIN table /\ attr \in DOMAIN table[t] THEN <<table[t][attr]>> ELSE <<>>
\* the event this step appended to the history of t
Appended(t) == hist'[t][Len(hist'[t])]
AppendedNow(t, op) == Len(hist'[t]) = Len(hist[t]) + 1 /\ Appended(t).op = op
SameAttr(t, attr) == Attr(store', t, attr) = Attr(store, t, attr)

C21_LastWriterWinsPerHalf ==
    [][\A t \in TripIds :
          /\ AppendedNow(t, "trip_start") =>
                /\ Attr(store', t, "trip_start_data") = <<StartData(Appended(t).payload)>>
                /\ Attr(store', t, "pickup_datetime") = <<Appended(t).payload.pickup_datetime.v>>
                /\ SameAttr(t, "trip_end_data") /\ SameAttr(t, "dropoff_datetime")
          /\ AppendedNow(t, "trip_end") =>
                /\ Attr(store', t, "trip_end_data") = <<EndData(Appended(t).payload)>>
                /\ Attr(store', t, "dropoff_datetime") = <<Appended(t).payload.dropoff_datetime.v>>
                /\ SameAttr(t, "trip_start_data") /\ SameAttr(t, "pickup_datetime")
          /\ ~(\E op \in {"trip_start", "trip_end", "expire"} : AppendedNow(t, op)) =>
                /\ SameAttr(t, "trip_start_data") /\ SameAttr(t, "pickup_datetime")
                /\ SameAttr(t, "trip_end_data") /\ SameAttr(t, "dropoff_datetime")]_vars

\* Start, End, End again with another body: the item holds the second End and the Start
C21_Witness ==
    /\ Len(Merges("T1")) = 3 /\ ~Faulted("T1")
    /\ Merges("T1")[1].payload = StartPayload("T1", StartBodyB)
    /\ Merges("T1")[2].payload = EndPayload("T1", EndBodyA)
    /\ Merges("T1")[3].payload = EndPayload("T1", EndBodyB)
    /\ store["T1"].trip_end_data = EndData(EndPayload("T1", EndBodyB))
    /\ store["T1"].trip_start_data = StartData(StartPayload("T1", StartBodyB))

(***************************************************************************)
(* Direct calls of categorize_error and validate_event_data: call holds    *)
(* the function, its argument and what it returned.                        *)
(***************************************************************************)
\* a field left out of a payload
Absent == [ty |-> "absent", v |-> 0]
\* payload with field set to value, or without the field
With(payload, field, value) ==
    IF value = Absent THEN [k \in (DOMAIN payload) \ {field} |-> payload[k]]
    ELSE [k \in (DOMAIN payload) \cup {field} |-> IF k = field THEN value ELSE payload[k]]
Entries(seq) == {seq[i] : i \in DOMAIN seq}
Change(field, value) == [field |-> field, value |-> value]
\* values for a ranged field: both bounds, just outside them, too large for a float,
\* a word
RangeValues(e) == {Num(e.min), Num(e.max), Num(e.min - 5), Num(e.max + 1), HugeInt, Str("abc")}
\* values for a time field: the limits of the plausibility rules at the first clock
\* value, a time of the valid payloads, a 'Z' time, no time, a number
TimeValues ==
    {Str(t) : t \in {"2024-05-25T08:31:00", "2024-05-27T00:30:00", "2024-05-27T00:31:00",
                     "2024-05-27T01:00:00", "2024-05-27T01:01:00", "2024-05-20T00:00:00",
                     "2024-05-19T23:59:00", "2024-05-27T02:00:00Z", "not-a-time", ""}}
    \cup {Num(5 * Milli)}
EventTypeValues == {Str(""), Str("trip_cancel"), Num(1 * Milli), Null, Absent}
\* the single changes made to a payload of the kind
Changes(schema, time_field) ==
    UNION {{Change(e.field, v) : v \in RangeValues(e)} : e \in Entries(schema.field_ranges)}
    \cup {Change(f, Absent) : f \in Entries(schema.required_fields)}
    \cup {Change(time_field, v) : v \in TimeValues}
    \cup {Change("event_type", v) : v \in EventTypeValues}
\* base, and base with one or two fields changed
Variants(base, schema, time_field) ==
    {base}
    \cup {With(base, c.field, c.value) : c \in Changes(schema, time_field)}
    \cup UNION {{With(With(base, c.field, c.value), d.field, d.value) :
                     d \in {x \in Changes(schema, time_field) : x.field # c.field}} :
                 c \in Changes(schema, time_field)}
\* the payloads validate_event_data is called on
ValidationPayloads ==
    Variants(StartPayload("T1", StartBodyA), TRIP_START_SCHEMA, "pickup_datetime")
    \cup Variants(EndPayload("T1", EndBodyA), TRIP_END_SCHEMA, "dropoff_datetime")

\* validate_event_data(payload, correlation_id), at the clock of the state
CallValidateEventData(payload) ==
    /\ call = NoCall
    /\ call' = [fn |-> "validate_event_data", payload |-> payload, at |-> NowMinutes(now),
                result |-> validate_event_data(payload, NowMinutes(now))]
    /\ UNCHANGED <<handler_vars, gen>>

\* categorize_error(error)
CallCategorizeError(error) ==
    /\ call = NoCall
    /\ call' = [fn |-> "categorize_error", error |-> error, result |-> categorize_error(error)]
    /\ UNCHANGED <<handler_vars, gen>>

NextCalls ==
    \/ \E error \in AnyFailures : CallCategorizeError(error)
    \/ \E payload \in ValidationPayloads : CallValidateEventData(payload)
    \/ Tick

SpecCalls == Init /\ [][NextCalls]_vars

Categorized == call.fn = "categorize_error"
\* the failures of decoding record['kinesis']['data']: base64, UTF-8, JSON
DecodeFailures == {"binascii.Error", "UnicodeDecodeError", "JSONDecodeError"}

(***************************************************************************)
(* C22. categorize_error classifies every decode/parse failure             *)
(* (JSONDecodeError, base64 and UTF-8 decode failures) as SCHEMA_ERROR,    *)
(* whatever the other rules would say.                                     *)
(***************************************************************************)
C22_DecodeFailureIsSchemaError ==
    (Categorized /\ call.error.type \in DecodeFailures) => call.result = "SCHEMA_ERROR"

\* the message holds one of the keywords
Mentions(msg, keywords) == \E keyword \in keywords : Contains(Lower(msg), keyword)
NetworkKeywords == {"timeout", "connection", "network", "endpoint"}
PoisonKeywords == {"malformed", "corrupt"}
\* no rule before the network and malformed rules applies to the failure
PastStorageRules(error) ==
    /\ ~IsValueOrTypeError(error.type)
    /\ ~Mentions(error.msg, {"throttling", "provisionedthroughputexceeded", "conditionalcheckfailed"})

(***************************************************************************)
(* C23. The malformed/corrupt rule comes before the network rule: a        *)
(* failure past the type, throttling and conditional-check rules whose     *)
(* message mentions malformed or corrupt content is POISON_PILL, also when *)
(* it mentions a timeout, connection, network or endpoint; a failure that  *)
(* matches no rule is SYSTEM_ERROR.                                        *)
(***************************************************************************)
C23_MalformedBeforeNetwork ==
    (Categorized /\ PastStorageRules(call.error)) =>
        /\ Mentions(call.error.msg, PoisonKeywords) => call.result = "POISON_PILL"
        /\ (~Mentions(call.error.msg, PoisonKeywords) /\ ~Mentions(call.error.msg, NetworkKeywords))
               => call.result = "SYSTEM_ERROR"

\* what update_item raises: botocore's ClientError, with these messages when the call
\* is throttled and when a condition fails
ThrottledMessages == {ThroughputExceeded.msg, ThrottlingException.msg, RequestThrottled.msg}
ConditionalMessages == {ConditionalCheckFailed.msg}

(***************************************************************************)
(* C24. A storage failure whose message contains                           *)
(* 'ProvisionedThroughputExceeded' or 'throttling', in any letter case, is *)
(* TRANSIENT_ERROR; one whose message contains 'ConditionalCheckFailed' is *)
(* BUSINESS_RULE_ERROR.                                                    *)
(***************************************************************************)
C24_StorageFailureClasses ==
    (Categorized /\ call.error.type = "ClientError") =>
        /\ call.error.msg \in ThrottledMessages => call.result = "TRANSIENT_ERROR"
        /\ call.error.msg \in ConditionalMessages => call.result = "BUSINESS_RULE_ERROR"

\* the upper-case throttling message and the failed conditional check were classified
C24_Witness ==
    /\ Categorized /\ call.error = ConditionalCheckFailed
    /\ call.result = "BUSINESS_RULE_ERROR"
    /\ categorize_error(RequestThrottled) = "TRANSIENT_ERROR"


(***************************************************************************)
(* Claims about validate_event_data, on its direct calls.                  *)
(***************************************************************************)
Validated == call.fn = "validate_event_data"
KnownKind(payload) == Get(payload, "event_type") \in {Str("trip_start"), Str("trip_end")}
\* the schema of a payload of a known kind, as the specification names it
SchemaOfKind(payload) ==
    IF payload.event_type = Str("trip_start") THEN TRIP_START_SCHEMA ELSE TRIP_END_SCHEMA
Reported(result, type, field) == Err(type, field) \in Entries(result.errors)
TimesReported(result, type, field) ==
    Cardinality({i \in DOMAIN result.errors : result.errors[i] = Err(type, field)})
\* a number a float can hold, outside the inclusive range of the entry
Outside(value, e) == value.ty = "num" /\ ~FloatOverflows(value) /\ (value.v < e.min \/ value.v > e.max)

\* C25: for a payload of a known kind, validate_event_data runs the required-field,
\* type and range checks without short-circuit: each absent required field has exactly
\* one MISSING_FIELD error (and a present one none), every field of a wrong type has
\* its TYPE_ERROR and every number outside its range its RANGE_ERROR in the same
\* result, and is_valid is false exactly when the errors list is non-empty.
C25_AllChecksRun ==
    (Validated /\ KnownKind(call.payload)) =>
        LET payload == call.payload
            schema == SchemaOfKind(payload)
            result == call.result
        IN  /\ \A f \in Entries(schema.required_fields) :
                   TimesReported(result, "MISSING_FIELD", f) = IF f \in DOMAIN payload THEN 0 ELSE 1
            /\ \A e \in Entries(schema.field_types) :
                   (e.field \in DOMAIN payload /\ payload[e.field].ty \notin e.types)
                       => Reported(result, "TYPE_ERROR", e.field)
            /\ \A e \in Entries(schema.field_ranges) :
                   (e.field \in DOMAIN payload /\ Outside(payload[e.field], e))
                       => Reported(result, "RANGE_ERROR", e.field)
            /\ result.is_valid = (result.errors = <<>>)

\* the valid payload of the kind that the called payloads are variants of
BaseOfKind(payload) ==
    IF payload.event_type = Str("trip_start") THEN StartPayload("T1", StartBodyA)
    ELSE EndPayload("T1", EndBodyA)

\* C26: range bounds are inclusive: a number in a ranged field of the event's kind has
\* a RANGE_ERROR (and the event is invalid) exactly when it is below min or above max;
\* an estimated fare of 0.005 is rejected with RANGE_ERROR, and an otherwise valid
\* event with a value exactly at a min or a max (0.01 for the fare) is accepted.
C26_InclusiveRanges ==
    (Validated /\ KnownKind(call.payload)) =>
        LET payload == call.payload
            schema == SchemaOfKind(payload)
            result == call.result
        IN  /\ \A e \in Entries(schema.field_ranges) :
                   (e.field \in DOMAIN payload /\ payload[e.field].ty = "num") =>
                       /\ Reported(result, "RANGE_ERROR", e.field)
                              <=> (payload[e.field].v < e.min \/ payload[e.field].v > e.max)
                       /\ Reported(result, "RANGE_ERROR", e.field) => ~result.is_valid
                       /\ payload \in {With(BaseOfKind(payload), e.field, Num(e.min)),
                                       With(BaseOfKind(payload), e.field, Num(e.max))}
                              => result.is_valid
            /\ (payload.event_type = Str("trip_start")
                    /\ Get(payload, "estimated_fare_amount") = Num(5))
                   => (Reported(result, "RANGE_ERROR", "estimated_fare_amount") /\ ~result.is_valid)


(***************************************************************************)
(* Claims about validation at work in lambda_handler (SpecEdge).           *)
(***************************************************************************)
\* the record's data decodes to a JSON object
Decodes(record) ==
    /\ IsDict(record.kinesis)
    /\ record.kinesis.data.enc = "json" /\ IsDict(Decoded(record))
KnownTypes == {Str("trip_start"), Str("trip_end")}
\* what the handler does with a record it takes whose event type is unknown: one
\* INVALID_EVENT_TYPE error and nothing else, counted as an error, nothing merged
UnknownTypeHandled(w) ==
    LET validation_result == validate_event_data(Decoded(LastTaken(w)), NowMinutes(now))
    IN  /\ ~validation_result.is_valid
        /\ validation_result.errors = <<Err("INVALID_EVENT_TYPE", "event_type")>>
        /\ validation_result.warnings = <<>>
        /\ counters'[w].error_count = counters[w].error_count + 1
        /\ counters'[w].processed_count = counters[w].processed_count
        /\ store' = store /\ hist' = hist

\* C27 as stated: an event whose event_type is present but is neither 'trip_start' nor
\* 'trip_end' gets exactly one error, INVALID_EVENT_TYPE, and no other check; the
\* enhanced lambda_handler counts it in error_count and merges nothing.
C27_PresentUnknownType ==
    [][\A w \in Workers :
           (/\ Takes(w) /\ Decodes(LastTaken(w))
            /\ "event_type" \in DOMAIN Decoded(LastTaken(w))
            /\ Decoded(LastTaken(w)).event_type \notin KnownTypes)
               => UnknownTypeHandled(w)]_vars

\* C27, amended: an event whose event_type is present and not empty (truthy in Python)
\* but is neither 'trip_start' nor 'trip_end' gets exactly one error,
\* INVALID_EVENT_TYPE, and no other check; the enhanced lambda_handler counts it in
\* error_count and merges nothing.
C27_NonEmptyUnknownType ==
    [][\A w \in Workers :
           (/\ Takes(w) /\ Decodes(LastTaken(w))
            /\ "event_type" \in DOMAIN Decoded(LastTaken(w))
            /\ Truthy(Decoded(LastTaken(w)).event_type)
            /\ Decoded(LastTaken(w)).event_type \notin KnownTypes)
               => UnknownTypeHandled(w)]_vars

\* a Start was merged, then a 'trip_cancel' event was counted as an error: the item is
\* still the Start alone
C27_Witness ==
    /\ Len(taken["w1"]) = 2
    /\ taken["w1"][1] = EdgeStart("2024-05-25T08:00:00")
    /\ taken["w1"][2] = KinesisRecord("json", [event_type |-> Str("trip_cancel"), trip_id |-> Str("T1")])
    /\ idx["w1"] = 2
    /\ counters["w1"].error_count = 1 /\ counters["w1"].processed_count = 1
    /\ "T1" \in DOMAIN store /\ "trip_end_data" \notin DOMAIN store["T1"]


\* the string parses as a timestamp
Parses(s) == FromIsoFormat(s).ok
\* the events of the runs that carry a time that does not parse
UnparseableTime(payload) ==
    \/ payload.event_type = Str("trip_start") /\ ~Parses(payload.pickup_datetime.v)
    \/ payload.event_type = Str("trip_end") /\ ~Parses(payload.dropoff_datetime.v)
TimeField(payload) ==
    IF payload.event_type = Str("trip_start") THEN "pickup_datetime" ELSE "dropoff_datetime"

\* C28: every event accepted by validation carries a parseable timestamp: a Start whose
\* pickup_datetime, or an End whose dropoff_datetime, does not parse (the empty string
\* included) gets an INVALID_DATETIME error and is invalid, so that no merged
\* trip_end_data and no completion_datetime holds an unparseable or empty time.
C28_AcceptedTimesParse ==
    /\ \A w \in Workers : \A record \in Entries(taken[w]) :
           (Decodes(record) /\ KnownKind(Decoded(record)) /\ UnparseableTime(Decoded(record)))
               => LET result == validate_event_data(Decoded(record), NowMinutes(now))
                  IN  /\ Reported(result, "INVALID_DATETIME", TimeField(Decoded(record)))
                      /\ ~result.is_valid
    /\ \A t \in DOMAIN store :
           /\ "trip_end_data" \in DOMAIN store[t] => Parses(store[t].trip_end_data.dropoff_datetime)
           /\ "completion_datetime" \in DOMAIN store[t] => Parses(store[t].completion_datetime)


\* the instant of the event's time, when it parses
PickupTime(payload) == FromIsoFormat(payload.pickup_datetime.v)
DropoffTime(payload) == FromIsoFormat(payload.dropoff_datetime.v)
Warned(result, type, field) == Err(type, field) \in Entries(result.warnings)
\* the Start is valid and handed to process_trip_start: its merge is applied, unless
\* the update_item call raises
StartGoesToStore(w, payload, result) ==
    /\ result.is_valid /\ result.errors = <<>>
    /\ \/ /\ AppendedNow(payload.trip_id.v, "trip_start")
          /\ Appended(payload.trip_id.v).payload = payload
          /\ store'[payload.trip_id.v].trip_start_data = StartData(payload)
       \/ AppendedNow(payload.trip_id.v, "fail")

\* C29: time plausibility is asymmetric: an End whose dropoff time is more than 30
\* minutes after the current time is rejected with a FUTURE_DROPOFF error and merges
\* nothing, while a Start whose pickup time is more than 1 hour in the future
\* (FUTURE_PICKUP) or more than 7 days in the past (OLD_PICKUP) gets only a warning,
\* stays valid and is merged into the store; times within those limits produce neither.
C29_TimePlausibility ==
    [][\A w \in Workers :
           (Takes(w) /\ Decodes(LastTaken(w)) /\ KnownKind(Decoded(LastTaken(w)))) =>
               LET payload == Decoded(LastTaken(w))
                   at == NowMinutes(now)
                   result == validate_event_data(payload, at)
               IN  /\ (payload.event_type = Str("trip_end") /\ DropoffTime(payload).ok) =>
                          IF DropoffTime(payload).t > at + 30
                          THEN /\ Reported(result, "FUTURE_DROPOFF", "dropoff_datetime")
                               /\ ~result.is_valid
                               /\ store' = store /\ hist' = hist
                          ELSE ~Reported(result, "FUTURE_DROPOFF", "dropoff_datetime")
                   /\ (payload.event_type = Str("trip_start") /\ PickupTime(payload).ok) =>
                          /\ Warned(result, "FUTURE_PICKUP", "pickup_datetime")
                                 <=> PickupTime(payload).t > at + 60
                          /\ Warned(result, "OLD_PICKUP", "pickup_datetime")
                                 <=> PickupTime(payload).t < at - 7 * 24 * 60
                          /\ StartGoesToStore(w, payload, result)]_vars


(***************************************************************************)
(* C30, on the paired runs (SpecPair).                                     *)
(***************************************************************************)
\* every update_item failure of a run, by record index and place
AllRaised(h, w) ==
    UNION {{<<i, at, r>> : r \in RaisedAt(h, w, i, at)} :
               i \in 0..(MaxBatchSingle - 1), at \in {"merge", "mark"}}
\* both runs are over, on the same batch of records that decode and pass validation,
\* from the same table, with the same update_item outcomes
PairedRunsOver ==
    /\ call.fn = "lambda_handler"
    /\ pc["b1"] = "done"
    /\ taken["b1"] = call.taken
    /\ \A record \in Entries(call.taken) :
           Decodes(record) /\ validate_event_data(Decoded(record), NowMinutes(now)).is_valid
    /\ AllRaised(hist, "b1") = AllRaised(call.hist, "w1")

\* C30: the enhanced handler preserves the original processing logic: for a batch whose
\* records all decode and pass validation, from the same initial table and with the
\* same storage outcomes, the enhanced and the basic lambda_handler return the same
\* processed_count, error_count and completed_trips and leave the same table.
C30_EnhancedPreservesBasic ==
    PairedRunsOver =>
        /\ counters["b1"].processed_count = call.counters.processed_count
        /\ counters["b1"].error_count = call.counters.error_count
        /\ counters["b1"].completed_trips = call.counters.completed_trips
        /\ store = call.store

\* both handlers ran a batch of three on a table that held the End of T1: the Start
\* completed the trip, one update_item call raised, and the table was changed
C30_Witness ==
    /\ PairedRunsOver
    /\ Len(call.taken) = 3
    /\ call.store0 # EmptyTable
    /\ call.counters.completed_trips = 1
    /\ call.counters.error_count = 1
    /\ call.counters.processed_count = 2
    /\ store # call.store0
    /\ IsComplete(store["T1"])


(***************************************************************************)
(* Claims about the counters and what a counted record leaves behind.      *)
(***************************************************************************)
\* this step counts the record invocation w is at in error_count
CountedAsError(w) == counters'[w].error_count = counters[w].error_count + 1
\* the record w is at was merged before this step (its completion write is due), and
\* the half it wrote is still in the item after the step
HalfLeftBehind(w) ==
    /\ pc[w] = "merged"
    /\ LET payload == Decoded(cur[w].record)
           t == payload.trip_id.v
       IN  /\ t \in DOMAIN store'
           /\ IF payload.event_type = Str("trip_start")
              THEN /\ "trip_start_data" \in DOMAIN store'[t]
                   /\ store'[t].trip_start_data = StartData(payload)
              ELSE /\ "trip_end_data" \in DOMAIN store'[t]
                   /\ store'[t].trip_end_data = EndData(payload)
\* the item of the record w is at holds both halves and is not marked complete
BothHalvesUnmarked(w) ==
    LET t == cur[w].item.trip_id
    IN  /\ pc[w] = "merged"
        /\ t \in DOMAIN store'
        /\ BothHalves(store'[t]) /\ ~IsComplete(store'[t])

\* C31: a record that the handler counts in error_count has left no effect in the
\* store: the step that counts it changes nothing there and no merge of the record
\* stays behind; in particular, when the merge succeeds and the completion write
\* fails, the item is not left with both halves and is_complete unset while the
\* record is reported as an error.
C31_ErrorLeavesNoEffect ==
    [][\A w \in Workers :
           CountedAsError(w) =>
               /\ store' = store
               /\ ~HalfLeftBehind(w)
               /\ ~BothHalvesUnmarked(w)]_vars


\* C32: every record present in the store has a ttl_timestamp and at least one of
\* trip_start_data and trip_end_data, in every reachable state, also when the
\* time-to-live removes the record between an invocation's merge and its completion
\* write.
C32_StoredItemsWellFormed ==
    \A t \in DOMAIN store :
        /\ "ttl_timestamp" \in DOMAIN store[t]
        /\ "trip_start_data" \in DOMAIN store[t] \/ "trip_end_data" \in DOMAIN store[t]


\* the order the counters of an invocation keep
CountersOrdered(c) ==
    /\ 0 <= c.archived_invalid
    /\ c.archived_invalid <= c.validation_errors
    /\ c.validation_errors <= c.error_count
    /\ 0 <= c.completed_trips
    /\ c.completed_trips <= c.processed_count
CounterNames == {"processed_count", "error_count", "completed_trips", "validation_errors",
                 "archived_invalid"}

\* C33: at every point of a batch and in the returned summary of the enhanced
\* lambda_handler, archived_invalid <= validation_errors <= error_count and
\* completed_trips <= processed_count, and no counter ever decreases while the batch
\* is processed.
C33_CountersOrderedAndMonotone ==
    [][\A w \in Workers :
           /\ CountersOrdered(counters[w])
           /\ CountersOrdered(counters'[w])
           /\ \A n \in CounterNames : counters[w][n] <= counters'[w][n]]_vars

\* a returned summary in which the three error counters differ: two events rejected,
\* one of them archived, and one record that did not decode
C33_Witness ==
    /\ pc["w1"] = "done"
    /\ counters["w1"].archived_invalid = 1
    /\ counters["w1"].validation_errors = 2
    /\ counters["w1"].error_count = 3


\* C34: in the basic lambda_handler every record of a batch is counted exactly once,
\* in processed_count or in error_count: at every point of the loop
\* processed_count + error_count is the number of records handled so far, and in the
\* returned summary the number of records of the batch, also for a record whose
\* event_type is neither 'trip_start' nor 'trip_end'.
C34_BasicCountsEveryRecord ==
    \A w \in BasicWorkers :
        /\ pc[w] \in {"loop", "merged"} => Accounted(w) = idx[w]
        /\ pc[w] = "done" => Accounted(w) = size[w]

====
